---- MODULE Spec2Model ----
(***************************************************************************)
(* A model of QuantinuumJob (src/qiskit/providers/quantinuum/              *)
(* quantinuumjob.py): one job object, the remote API it talks to, and the  *)
(* public operations submit(), status(), result(), error_message() and     *)
(* cancel().  Every operation is one atomic action; what the remote        *)
(* answers is the action's input.                                          *)
(*                                                                         *)
(* Encoding of Python values                                               *)
(*   JobStatus members    "JobStatus.DONE", "JobStatus.ERROR", ...         *)
(*   raw API status text  "queued", "running", "completed", ...            *)
(*   None                 "None" for a status, 0 for a job id or a date,   *)
(*                        "" for a text, NoResult for a Result             *)
(*   a missing attribute  "unset"                                          *)
(*   a missing dict key   "absent"                                         *)
(*   remote job ids       1, 2, 3, ... in the order the remote issues them *)
(***************************************************************************)
EXTENDS Integers, Sequences, FiniteSets, TLC

\* ------------------------------------------------------------------ bounds
\* Experiments of a job built from circuits or from a qobj.
MaxExp == 2
\* Entries one job object may gather in _experiment_results (status() and
\* result() append and never clear).
MaxEntries == 3
\* Operations called on one job object, a request the remote fails to answer
\* (a transport error, a websocket that closes or times out) counting as one
\* more.
MaxOps == 4

\* Registers of a 'results' object put through the counts expression by
\* itself, its shots per register, and the bits of all its registers in all
\* its shots.
MaxRegs == 2
MaxShots == 3
MaxCodecBits == 6

\* The largest number of pending jobs a machine-status response reports.
MaxPending == 2

\* The characters of an access token and of an exception's text, and the
\* retries a session is configured with.
MaxTokenLen == 3
MaxMsgLen == 4
MaxRetries == 2

\* Symbols of a URL's host prefix.
MaxPrefixLen == 1

\* Symbols of a URL after the host name.
MaxTailLen == 5

\* Job ids one job object may hold (submit() appends and never clears).
MaxIds == MaxExp

\* ------------------------------------------------------- program constants
\* result(timeout=300), status(timeout=300), _get_status(timeout=300)
DefaultTimeout == 300
\* Options(shots=1024, ...)
DefaultShots == 1024

\* ---------------------------------------------------------------- helpers
\* max(a, b)
Max(a, b) == IF a >= b THEN a ELSE b

Min(a, b) == IF a <= b THEN a ELSE b

Last(s) == s[Len(s)]

\* s back to front
Reverse(s) == [k \in 1..Len(s) |-> s[Len(s) + 1 - k]]

\* qiskit.providers.jobstatus.JOB_FINAL_STATES
JOB_FINAL_STATES == {"JobStatus.DONE", "JobStatus.CANCELLED", "JobStatus.ERROR"}

\* The values of ApiJobStatus.
ApiJobStatus == {"queued", "running", "completed", "canceled", "failed"}

\* The statuses that end the poll loop of _get_status.
PollFinal == {"failed", "completed", "canceled"}

NoResult == [kind |-> "None"]

\* ---------------------------------------------------------- remote answers
\* What the remote answers for 'status' in a job-status payload.  'queued' is
\* left to the submission response: every branch of the job treats it as it
\* treats 'running'.  A payload with no 'status' key would carry "absent".
RemoteStatuses == {"running", "completed", "canceled", "failed"}

\* The statuses of the payloads that carry a 'results' object: a finished
\* job's, whichever way it finished.
WithResults == {"completed", "canceled", "failed"}

\* The statuses of the payloads that carry none: a job still running, and a
\* failed job with nothing to report.
WithoutResults == {"running", "failed"}

\* What the remote answers for 'status' when it accepts a submission.
SubmitStatuses == {"queued", "completed"}

\* One 'results' object: a sequence of registers (the dict's values in key
\* order), each a sequence of per-shot values, each a sequence of bits.
ResA == << << <<0>>, <<1>>, <<1>> >> >>

RemoteResults == {ResA}

\* The JSON payloads a job-status query (or the websocket message) for job
\* `job_id` may deliver.  `job` is the id the payload is about.
Payloads(job_id) ==
    {[kind |-> "payload", job |-> job_id, status |-> s, has_results |-> TRUE, results |-> r] :
        s \in RemoteStatuses \cap WithResults, r \in RemoteResults}
    \cup
    {[kind |-> "payload", job |-> job_id, status |-> s, has_results |-> FALSE, results |-> <<>>] :
        s \in RemoteStatuses \cap WithoutResults}

\* What _get_status hands back when it does not query: the job's _status.
StatusEntry(st) ==
    [kind |-> "status", job |-> 0, status |-> st, has_results |-> FALSE, results |-> <<>>]

\* _get_status ending in an exception of class `exc`.
Raised(job_id, exc) ==
    [kind |-> "raise", job |-> job_id, status |-> exc, has_results |-> FALSE, results |-> <<>>]

\* I/O events of _get_status: what was done (`ev`), for a sleep its length in
\* quarter milliseconds (`d`), and for a request what came back (`got`).
Nothing == [kind |-> "-", job |-> 0, status |-> "-", has_results |-> FALSE, results |-> <<>>]

\* A job-status response that carries a 'websocket' handle for job `job_id`.
Handle(job_id) ==
    [kind |-> "websocket", job |-> job_id, status |-> "absent", has_results |-> FALSE,
     results |-> <<>>]

\* A request that raised instead of answering.
Failure(job_id) ==
    [kind |-> "failure", job |-> job_id, status |-> "absent", has_results |-> FALSE,
     results |-> <<>>]

Ev(name) == [ev |-> name, d |-> 0, got |-> Nothing]

\* `got` is the answer to a request, or what a message sent carried.
Got(name, r) == [ev |-> name, d |-> 0, got |-> r]

Sleep(delay) == [ev |-> "sleep", d |-> delay, got |-> Nothing]

\* A timeout argument: a number, or a value that is no number.
NumTimeout(t) == [num |-> TRUE, val |-> t]

StrTimeout(job_id) == [num |-> FALSE, val |-> job_id]

\* ------------------------------------------------------------ _get_status
\* Time is counted in quarter milliseconds, so that every delay the loop
\* computes is a whole number: 1.0 s is 4000, the 10 s cap is 40000, and
\* timeout/1000 seconds is timeout*4.  request_delay*1.5 is only computed for
\* 4000, 6000, 9000, 13500, 20250 (exactly) and for 30375 and 40000, where it
\* exceeds the cap either way.

\* The poll loop of _get_status from its `while` on: `resp` is api_response,
\* `io` what was done so far.  The set of ways it can end, over every answer
\* the remote may give.
RECURSIVE PollLoop(_, _, _, _, _)
PollLoop(job_id, resp, residual_delay, request_delay, io) ==
    IF resp.status = "absent"
    THEN \* api_response['status'] raises KeyError, re-raised as JobError
         {[out |-> Raised(job_id, "JobError"), io |-> io]}
    ELSE IF resp.status \in PollFinal
    THEN {[out |-> resp, io |-> io]}
    ELSE IF request_delay < 0
    THEN \* sleep() of a negative length raises ValueError
         {[out |-> Raised(job_id, "JobError"), io |-> io]}
    ELSE LET io2 == Append(io, Sleep(request_delay))
             residual2 == residual_delay - request_delay
         IN  {[out |-> Raised(job_id, "JobError"),
               io |-> Append(io2, Got("job_status", Failure(job_id)))]}
             \cup
             UNION { IF residual2 <= 0
                     THEN {[out |-> r, io |-> Append(io2, Got("job_status", r))]}
                     ELSE PollLoop(job_id, r, residual2,
                                   Min(Min((request_delay * 3) \div 2, 40000), residual2),
                                   Append(io2, Got("job_status", r)))
                     : r \in Payloads(job_id) }

\* A variant of the poll branch that returns the first response without
\* looping.
PollMode_once(job_id, resp, timeout, io) == {[out |-> resp, io |-> io]}

\* A variant of the poll branch whose first wait is a quarter of a second.
PollMode_short_waits(job_id, resp, timeout, io) ==
    IF ~timeout.num
    THEN {[out |-> Raised(job_id, "JobError"), io |-> io]}
    ELSE LET residual_delay == timeout.val * 4
         IN  PollLoop(job_id, resp, residual_delay, Min(1000, residual_delay), io)

\* The poll branch: the first response carried no 'websocket'.
PollMode(job_id, resp, timeout, io) ==
    IF ~timeout.num
    THEN \* timeout/1000 raises TypeError
         {[out |-> Raised(job_id, "JobError"), io |-> io]}
    ELSE LET residual_delay == timeout.val * 4
         IN  PollLoop(job_id, resp, residual_delay, Min(4000, residual_delay), io)

\* Variants of the push branch of _get_status.  One that ignores the handle
\* and polls:
PushMode_polls(job_id, timeout, io) ==
    PollMode(job_id, CHOOSE r \in Payloads(job_id) : r.status = "running", timeout, io)

\* a push branch that hands back a running job when no message arrives:
PushMode_swallows(job_id, timeout, io) ==
    {[out |-> r,
      io |-> io \o <<Ev("ws_connect"), Got("ws_send", Last(io).got),
                     Got("ws_recv", Failure(job_id))>>]
     : r \in {p \in Payloads(job_id) : p.status = "running"}}

\* The push branch: the first response carried a 'websocket' handle.
PushMode(job_id, timeout, io) ==
    \* websockets.connect fails
    {[out |-> Raised(job_id, "JobError"),
      io |-> Append(io, Got("ws_connect", Failure(job_id)))]}
    \cup
    \* websocket.send fails
    {[out |-> Raised(job_id, "JobError"),
      io |-> io \o <<Ev("ws_connect"), Got("ws_send", Failure(job_id))>>]}
    \cup
    ( IF ~timeout.num
      THEN \* asyncio.wait_for rejects the timeout before receiving
           {[out |-> Raised(job_id, "JobError"),
             io |-> io \o <<Ev("ws_connect"), Got("ws_send", Last(io).got)>>]}
      ELSE LET io2 == io \o <<Ev("ws_connect"), Got("ws_send", Last(io).got)>>
           IN  \* no message within the timeout, or one json.loads rejects
               {[out |-> Raised(job_id, "JobError"),
                 io |-> Append(io2, Got("ws_recv", Failure(job_id)))]}
               \cup
               {[out |-> r, io |-> Append(io2, Got("ws_recv", r))] : r \in Payloads(job_id)} )

\* _get_status(job_id, timeout) on a job whose _status is `st`: the set of
\* ways the call can end, each with what it returns (or raises) and its I/O.
GetStatus(st, job_id, timeout) ==
    IF st = "unset"
    THEN {[out |-> Raised(job_id, "AttributeError"), io |-> <<>>]}
    ELSE IF job_id = 0 \/ st \in JOB_FINAL_STATES
    THEN {[out |-> StatusEntry(st), io |-> <<>>]}
    ELSE {[out |-> Raised(job_id, "JobError"),
           io |-> <<Got("job_status", Failure(job_id))>>]}
         \cup PushMode(job_id, timeout, <<Got("job_status", Handle(job_id))>>)
         \cup UNION { PollMode(job_id, r, timeout, <<Got("job_status", r)>>) :
                      r \in Payloads(job_id) }

\* `for job_id in self._job_ids: self._experiment_results.append(_get_status(..))`
\* The set of ways the loop can end: the entries appended, one log record per
\* _get_status call (the id asked for, the _status it found, what it returned
\* or raised, whether it did any I/O), and the exception that ended the loop
\* ("none" if it ran through).
\* One turn of that loop: _get_status for job_id, then the rest of the loop,
\* which can end in any of the ways in `rest`.
AwaitOne(st, job_id, timeout, rest) ==
    UNION {
      LET rec == [job_id |-> job_id, cached |-> st, out |-> o.out, queried |-> o.queried]
      IN  IF o.out.kind = "raise"
          THEN {[entries |-> <<>>, log |-> <<rec>>, raised |-> o.out.status]}
          ELSE {[entries |-> <<o.out>> \o r.entries,
                 log |-> <<rec>> \o r.log,
                 raised |-> r.raised] : r \in rest}
      : o \in {[out |-> g.out, queried |-> (g.io # <<>>)] :
                 g \in GetStatus(st, job_id, timeout)} }

RECURSIVE AwaitAll(_, _, _)
AwaitAll(st, ids, timeout) ==
    IF ids = <<>>
    THEN {[entries |-> <<>>, log |-> <<>>, raised |-> "none"]}
    ELSE UNION { AwaitOne(st, Head(ids), timeout, rest) :
                 rest \in {AwaitAll(st, Tail(ids), timeout)} }

\* ------------------------------------------------------- _process_results
HexDigit == <<"0", "1", "2", "3", "4", "5", "6", "7", "8", "9", "a", "b", "c", "d", "e", "f">>

RECURSIVE HexDigits(_)
HexDigits(n) ==
    IF n < 16 THEN HexDigit[n + 1] ELSE HexDigits(n \div 16) \o HexDigit[(n % 16) + 1]

\* hex(n) for n >= 0
Hex(n) == "0x" \o HexDigits(n)

\* int(bits, 2) for a non-empty text of 0s and 1s
RECURSIVE BinToInt(_)
BinToInt(bits) ==
    IF bits = <<>> THEN 0 ELSE 2 * BinToInt(SubSeq(bits, 1, Len(bits) - 1)) + Last(bits)

\* "".join(r) for the tuple r that zip(*res.values()) gives for shot k
RECURSIVE JoinShot(_, _)
JoinShot(res, k) ==
    IF res = <<>> THEN <<>> ELSE Head(res)[k] \o JoinShot(Tail(res), k)

\* len([*zip(*res.values())]): zip stops at the shortest register
RECURSIVE ZipLen(_)
ZipLen(res) ==
    IF res = <<>> THEN 0
    ELSE IF Len(res) = 1 THEN Len(Head(res))
    ELSE Min(Len(Head(res)), ZipLen(Tail(res)))

\* A variant of Counter that notes each key once.
Counter_once(keys) == [key \in {keys[k] : k \in DOMAIN keys} |-> 1]

\* Counter(keys): how often each key occurs in the sequence keys
Counter(keys) ==
    [key \in {keys[k] : k \in DOMAIN keys} |->
        Cardinality({k \in DOMAIN keys : keys[k] = key})]

\* Whether int("".join(r), 2) raises ValueError for some shot of res: it does
\* for an empty text.
CountsRaises(res) == \E k \in 1..ZipLen(res) : JoinShot(res, k) = <<>>

\* A variant of the counts expression that joins the registers back to front.
Counts_backwards(res) ==
    Counter([k \in 1..ZipLen(res) |-> Hex(BinToInt(JoinShot(Reverse(res), k)))])

\* dict(Counter(hex(int("".join(r), 2)) for r in [*zip(*list(res.values()))]))
Counts(res) ==
    CHOOSE c \in {Counter(keys) :
                    keys \in {[k \in 1..ZipLen(res) |-> Hex(BinToInt(JoinShot(res, k)))]}}
           : TRUE

\* self._job_config.get('shots', 1): run() always sets 'shots' (the default
\* option unless given); a job made from a job id has an empty config.
ConfigShots(experiments) == IF experiments = 0 THEN 1 ELSE DefaultShots

\* res_resp.get('status', 'failed')
StatusOf(res_resp) == IF res_resp.status = "absent" THEN "failed" ELSE res_resp.status

\* A variant of the experiment_result dict that carries the job's first id.
ExperimentResult_first_id(j, i) ==
    [shots |-> ConfigShots(j.experiments),
     success |-> (StatusOf(j.experiment_results[i]) = "completed"),
     counts |-> Counts(j.experiment_results[i].results),
     job_id |-> j.job_ids[1],
     header |-> IF j.circuits_job \/ j.qobj_payload THEN i ELSE 0]

\* A variant that counts every experiment that did not fail as a success.
ExperimentResult_not_failed(j, i) ==
    [shots |-> ConfigShots(j.experiments),
     success |-> (StatusOf(j.experiment_results[i]) # "failed"),
     counts |-> Counts(j.experiment_results[i].results),
     job_id |-> j.job_ids[i],
     header |-> IF j.circuits_job \/ j.qobj_payload THEN i ELSE 0]

\* The experiment_result dict built for entry i of _experiment_results.
ExperimentResult(j, i) ==
    [shots |-> ConfigShots(j.experiments),
     success |-> (StatusOf(j.experiment_results[i]) = "completed"),
     counts |-> Counts(j.experiment_results[i].results),
     job_id |-> j.job_ids[i],
     header |-> IF j.circuits_job \/ j.qobj_payload THEN i ELSE 0]

\* The exception the loop body of _process_results raises on entry i, "none"
\* if it builds the experiment result.
EntryRaises(j, i) ==
    LET res_resp == j.experiment_results[i]
    IN  IF res_resp.kind # "payload" THEN "AttributeError"  \* no .get on a JobStatus
        ELSE IF ~res_resp.has_results THEN "KeyError"
        ELSE IF CountsRaises(res_resp.results) THEN "ValueError"
        ELSE IF StatusOf(res_resp) \notin ApiJobStatus THEN "ValueError"
        ELSE IF i > Len(j.job_ids) THEN "IndexError"
        ELSE IF (j.circuits_job \/ j.qobj_payload) /\ i > j.experiments THEN "IndexError"
        ELSE "none"

\* The loop of _process_results from entry i on.  j is the job, st the
\* _status so far, done the experiment results built so far.
RECURSIVE ProcessLoop(_, _, _, _)
ProcessLoop(j, i, st, done) ==
    IF i > Len(j.experiment_results)
    THEN [exc |-> "none", status |-> st, results |-> done]
    ELSE IF j.experiment_results[i].kind # "payload"
    THEN [exc |-> "AttributeError", status |-> st, results |-> done]
    ELSE IF EntryRaises(j, i) # "none"
    THEN [exc |-> EntryRaises(j, i),
          status |-> IF StatusOf(j.experiment_results[i]) = "failed"
                     THEN "JobStatus.ERROR" ELSE st,
          results |-> done]
    ELSE ProcessLoop(j, i + 1,
                     IF StatusOf(j.experiment_results[i]) = "failed"
                     THEN "JobStatus.ERROR" ELSE st,
                     Append(done, ExperimentResult(j, i)))

\* A variant of the end of _process_results that reports success whatever
\* the status.
Assemble_succeeds(j, p, backend_ok) ==
    IF p.exc # "none"
    THEN [exc |-> p.exc, status |-> p.status, result |-> NoResult, faults |-> 0]
    ELSE IF ~backend_ok
    THEN [exc |-> "RequestsApiError", status |-> p.status, result |-> NoResult, faults |-> 1]
    ELSE [exc |-> "none", status |-> p.status, faults |-> 0,
          result |-> [kind |-> "Result", success |-> TRUE, job_id |-> j.job_id,
                      results |-> p.results]]

\* What _process_results does once its loop has ended as p; backend_ok says
\* whether the backend-status query made while the Result is assembled
\* succeeds.
Assemble(j, p, backend_ok) ==
    IF p.exc # "none"
    THEN [exc |-> p.exc, status |-> p.status, result |-> NoResult, faults |-> 0]
    ELSE IF ~backend_ok
    THEN [exc |-> "RequestsApiError", status |-> p.status, result |-> NoResult, faults |-> 1]
    ELSE [exc |-> "none", status |-> p.status, faults |-> 0,
          result |-> [kind |-> "Result",
                      success |-> (p.status = "JobStatus.DONE"),
                      job_id |-> j.job_id,
                      results |-> p.results]]

\* A variant of _process_results that starts from the status the job holds
\* instead of DONE.
_process_results_keeps_status(j) ==
    {Assemble(j, p, backend_ok) :
        p \in {ProcessLoop(j, 1, j.status, <<>>)}, backend_ok \in BOOLEAN}

\* A variant of _process_results that reports a job with a canceled
\* experiment as CANCELLED.
_process_results_cancels(j) ==
    {Assemble(j,
              IF \E k \in DOMAIN j.experiment_results :
                    j.experiment_results[k].status = "canceled"
              THEN [p EXCEPT !.status = "JobStatus.CANCELLED"] ELSE p,
              backend_ok) :
        p \in {ProcessLoop(j, 1, "JobStatus.DONE", <<>>)}, backend_ok \in BOOLEAN}

\* _process_results() on job j: the ways it can end, each with the exception
\* raised ("none" if it returns), the _status it leaves and the Result.
_process_results(j) ==
    {Assemble(j, p, backend_ok) :
        p \in {ProcessLoop(j, 1, "JobStatus.DONE", <<>>)}, backend_ok \in BOOLEAN}

\* --------------------------------------------------- the job's operations
\* Each operation is given the job as a record of its fields and yields the
\* set of ways the call can end: the job afterwards, the exception raised
\* ("none" if it returns), the value returned and the log of what it did.
NoRet == [status |-> "-", result |-> NoResult, msg |-> "-"]

RetStatus(st) == [status |-> st, result |-> NoResult, msg |-> "-"]

RetResult(r) == [status |-> "-", result |-> r, msg |-> "-"]

RetMsg(m) == [status |-> "-", result |-> NoResult, msg |-> m]

\* What job_submit may answer when the remote would issue id `nid` next.
SubmitResponses(nid) ==
    {[kind |-> "ok", job |-> nid, status |-> s, date |-> nid, error |-> "None"] :
        s \in SubmitStatuses}
    \cup {[kind |-> "error", job |-> 0, status |-> "absent", date |-> 0,
           error |-> "error text"]}
    \cup {[kind |-> "raise", job |-> 0, status |-> "absent", date |-> 0,
           error |-> "None"]}

\* The loop of submit() from experiment k on; calls logs each job_submit call
\* with its response.
RECURSIVE SubmitLoop(_, _, _, _)
SubmitLoop(j, k, nid, calls) ==
    IF k > j.experiments
    THEN \* Take the last submitted job's info
         LET submit_info == Last(calls).resp
         IN  {[job |-> [j EXCEPT !.creation_date = submit_info.date,
                                 !.status = submit_info.status,
                                 !.job_id = submit_info.job],
               exc |-> "none", calls |-> calls, next |-> nid, faults |-> 0]}
    ELSE UNION {
           LET calls2 == Append(calls, [exp |-> k, resp |-> submit_info])
           IN  IF submit_info.kind = "raise"
               THEN {[job |-> j, exc |-> "RequestsApiError", calls |-> calls2, next |-> nid,
                      faults |-> 1]}
               ELSE IF submit_info.kind = "error"
               THEN {[job |-> [j EXCEPT !.status = "JobStatus.ERROR",
                                       !.api_error_msg = submit_info.error],
                      exc |-> "none", calls |-> calls2, next |-> nid, faults |-> 0]}
               ELSE SubmitLoop([j EXCEPT !.job_ids = Append(@, submit_info.job)],
                               k + 1, nid + 1, calls2)
           : submit_info \in SubmitResponses(nid) }

\* Variants of submit() that the properties below must tell from submit().
\* One that files the ids of a call back to front:
submit_reversed(j, nid) ==
    IF j.experiments = 0
    THEN {[job |-> j, exc |-> "AttributeError", calls |-> <<>>, next |-> nid, faults |-> 0]}
    ELSE {[o EXCEPT !.job.job_ids =
                SubSeq(@, 1, Len(j.job_ids))
                \o Reverse(SubSeq(@, Len(j.job_ids) + 1, Len(@)))]
          : o \in SubmitLoop(j, 1, nid, <<>>)}

\* one that leaves _status alone when a response carries an error:
submit_keeps_status(j, nid) ==
    IF j.experiments = 0
    THEN {[job |-> j, exc |-> "AttributeError", calls |-> <<>>, next |-> nid, faults |-> 0]}
    ELSE {IF Last(o.calls).resp.kind = "error"
          THEN [o EXCEPT !.job.status = j.status]
          ELSE o
          : o \in SubmitLoop(j, 1, nid, <<>>)}

\* one that takes the first response's info instead of the last's:
submit_takes_first(j, nid) ==
    IF j.experiments = 0
    THEN {[job |-> j, exc |-> "AttributeError", calls |-> <<>>, next |-> nid, faults |-> 0]}
    ELSE {IF o.exc = "none" /\ Last(o.calls).resp.kind = "ok"
          THEN [o EXCEPT !.job.job_id = o.calls[1].resp.job,
                         !.job.status = o.calls[1].resp.status]
          ELSE o
          : o \in SubmitLoop(j, 1, nid, <<>>)}

\* one that leaves the creation date as the constructor set it:
submit_keeps_date(j, nid) ==
    IF j.experiments = 0
    THEN {[job |-> j, exc |-> "AttributeError", calls |-> <<>>, next |-> nid, faults |-> 0]}
    ELSE {[o EXCEPT !.job.creation_date = j.creation_date]
          : o \in SubmitLoop(j, 1, nid, <<>>)}

\* submit(): a job made from a job id has no _experiments attribute.
submit(j, nid) ==
    IF j.experiments = 0
    THEN {[job |-> j, exc |-> "AttributeError", calls |-> <<>>, next |-> nid, faults |-> 0]}
    ELSE SubmitLoop(j, 1, nid, <<>>)

\* Job j with the entries of `a` appended to _experiment_results.
Gathered(j, a) == [j EXCEPT !.experiment_results = @ \o a.entries]

\* status(timeout)
status(j, timeout) ==
    UNION {
      IF a.raised # "none"
      THEN {[job |-> Gathered(j, a), exc |-> a.raised, ret |-> NoRet, log |-> a.log,
             faults |-> IF a.raised = "JobError" THEN 1 ELSE 0]}
      ELSE { IF p.exc # "none"
             THEN [job |-> [Gathered(j, a) EXCEPT !.status = p.status],
                   exc |-> p.exc, ret |-> NoRet, log |-> a.log, faults |-> p.faults]
             ELSE [job |-> [Gathered(j, a) EXCEPT !.status = p.status,
                                                  !.result = p.result],
                   exc |-> "none", ret |-> RetStatus(p.status), log |-> a.log, faults |-> 0]
             : p \in _process_results(Gathered(j, a)) }
      : a \in AwaitAll(j.status, j.job_ids, timeout) }

\* result(timeout) from `# Wait for results sequentially` on: what it does
\* when it holds no result yet.
result_fetch(j, timeout) ==
    UNION {
      IF a.raised # "none"
      THEN {[job |-> Gathered(j, a), exc |-> a.raised, ret |-> NoRet, log |-> a.log,
             faults |-> IF a.raised = "JobError" THEN 1 ELSE 0]}
      ELSE { IF p.exc # "none"
             THEN [job |-> [Gathered(j, a) EXCEPT !.status = p.status],
                   exc |-> p.exc, ret |-> NoRet, log |-> a.log, faults |-> p.faults]
             ELSE IF p.status \notin {"JobStatus.DONE", "JobStatus.CANCELLED"}
             THEN [job |-> [Gathered(j, a) EXCEPT !.status = p.status,
                                                  !.result = p.result],
                   exc |-> "JobError", ret |-> NoRet, log |-> a.log, faults |-> 0]
             ELSE [job |-> [Gathered(j, a) EXCEPT !.status = p.status,
                                                  !.result = p.result],
                   exc |-> "none", ret |-> RetResult(p.result), log |-> a.log, faults |-> 0]
             : p \in _process_results(Gathered(j, a)) }
      : a \in AwaitAll(j.status, j.job_ids, timeout) }

\* A variant of result() that never looks at the cached Result.
result_uncached(j, timeout) == result_fetch(j, timeout)

\* result(timeout): `if self._result: return self._result`, else the above.
result(j, timeout) ==
    IF j.result # NoResult
    THEN {[job |-> j, exc |-> "none", ret |-> RetResult(j.result), log |-> <<>>,
           faults |-> 0]}
    ELSE result_fetch(j, timeout)

\* The loop of error_message() over the job ids still to visit: each turn
\* calls status(job_id), the job id taking the place of the timeout.
RECURSIVE ErrorLoop(_, _, _, _)
ErrorLoop(j, ids, log, faults) ==
    IF ids = <<>>
    THEN LET msg == IF j.api_error_msg \in {"None", ""}
                    THEN "An unknown error occurred."
                    ELSE j.api_error_msg
         IN  {[job |-> [j EXCEPT !.api_error_msg = msg],
               exc |-> "none", ret |-> RetMsg(msg), log |-> log, faults |-> faults]}
    ELSE UNION {
           IF o.exc # "none"
           THEN {[job |-> o.job, exc |-> o.exc, ret |-> NoRet, log |-> log \o o.log,
                  faults |-> faults + o.faults]}
           ELSE IF o.ret.status # "JobStatus.ERROR"
           THEN {[job |-> o.job, exc |-> "none", ret |-> RetMsg("None"), log |-> log \o o.log,
                  faults |-> faults + o.faults]}
           ELSE ErrorLoop(o.job, Tail(ids), log \o o.log, faults + o.faults)
           : o \in status(j, StrTimeout(Head(ids))) }

\* error_message()
error_message(j) == ErrorLoop(j, j.job_ids, <<>>, 0)

\* A variant of cancel() that marks the job cancelled.
cancel_marks_cancelled(j) ==
    {[job |-> [j EXCEPT !.status = "JobStatus.CANCELLED"],
      exc |-> "none", ret |-> NoRet, log |-> <<>>, faults |-> 0]}

\* cancel()
cancel(j) == {[job |-> j, exc |-> "none", ret |-> NoRet, log |-> <<>>, faults |-> 0]}

\* ------------------------------------------------------------------ state
VARIABLES
    \* the fields of the QuantinuumJob object
    _status, _job_id, _job_ids, _api_error_msg, _result, _experiment_results,
    _creation_date,
    \* len(self._experiments), 0 when the attribute was never set
    _experiments,
    _circuits_job,
    \* whether self._qobj_payload is a non-empty dict
    _qobj_payload,
    \* the remote: the id it issues to the next accepted submission
    next_id,
    \* the last operation called, how it ended and what it returned
    op, exc, ret,
    \* the job_submit calls of the last operation, with their responses
    calls,
    \* the _get_status calls of the last operation
    log,
    \* the Result the first result() call that returned gave its caller, and
    \* the Result the last status() call that returned built
    returned, built,
    \* the operations called so far plus the requests the remote failed
    nOps,
    \* one _get_status call looked at by itself: its timeout argument, whether
    \* it has ended, what it returned or raised and its I/O
    wait,
    \* one 'results' object put through the counts expression of
    \* _process_results: the object, whether that is done, whether it raised
    \* and the counts it gave
    codec,
    \* one status() or result() call followed statement by statement: where
    \* it stands, the job id it is awaiting, the poll budget and what it did
    flow,
    \* one machine-status response put through Backend.status
    machine,
    \* one HTTP request put through RetrySession.request
    http,
    \* one URL put through Credentials._canonicalize_url
    canon,
    \* one backend.run() call: its options, the job_config it builds and the
    \* submission requests the job sends
    run,
    \* one Credentials.save_config call: the stored section, the credentials
    \* and the section written
    qiskitrc

vars == <<_status, _job_id, _job_ids, _api_error_msg, _result, _experiment_results,
          _creation_date, _experiments, _circuits_job, _qobj_payload, next_id,
          op, exc, ret, calls, log, returned, built, nOps, wait, codec, flow, machine,
          http, canon, run, qiskitrc>>

\* No _get_status call is looked at by itself.
NoWait == [phase |-> "-", timeout |-> NumTimeout(0), out |-> Nothing, io |-> <<>>]

\* No 'results' object is looked at by itself.
NoCodec == [phase |-> "-", res |-> <<>>, raises |-> FALSE, counts |-> <<>>]

\* No call is followed statement by statement.
NoFlow == [phase |-> "-"]

\* No machine-status response is looked at.
NoMachine == [phase |-> "-"]

\* No HTTP request is looked at.
NoHttp == [phase |-> "-"]

\* No URL is looked at.
NoCanon == [phase |-> "-"]

\* No run() call is looked at.
NoRun == [phase |-> "-"]

\* No save_config call is looked at.
NoQiskitrc == [phase |-> "-"]

\* The job object as a record.
Self ==
    [status |-> _status, job_id |-> _job_id, job_ids |-> _job_ids,
     api_error_msg |-> _api_error_msg, result |-> _result,
     experiment_results |-> _experiment_results, creation_date |-> _creation_date,
     experiments |-> _experiments, circuits_job |-> _circuits_job,
     qobj_payload |-> _qobj_payload]

\* The job object becomes j.
Becomes(j) ==
    /\ _status' = j.status
    /\ _job_id' = j.job_id
    /\ _job_ids' = j.job_ids
    /\ _api_error_msg' = j.api_error_msg
    /\ _result' = j.result
    /\ _experiment_results' = j.experiment_results
    /\ _creation_date' = j.creation_date
    /\ _experiments' = j.experiments
    /\ _circuits_job' = j.circuits_job
    /\ _qobj_payload' = j.qobj_payload

\* The job object is j (in the initial state).
Is(j) ==
    /\ _status = j.status
    /\ _job_id = j.job_id
    /\ _job_ids = j.job_ids
    /\ _api_error_msg = j.api_error_msg
    /\ _result = j.result
    /\ _experiment_results = j.experiment_results
    /\ _creation_date = j.creation_date
    /\ _experiments = j.experiments
    /\ _circuits_job = j.circuits_job
    /\ _qobj_payload = j.qobj_payload

\* A variant of the constructor that does not file the job id it is given.
NewJob_forgets_id(source, n, job_id) ==
    [status |-> IF source = "circuits" THEN "unset" ELSE "JobStatus.INITIALIZING",
     job_id |-> job_id,
     job_ids |-> <<>>,
     api_error_msg |-> "None",
     result |-> NoResult,
     experiment_results |-> <<>>,
     creation_date |-> -1,
     experiments |-> IF source = "job_id" THEN 0 ELSE n,
     circuits_job |-> (source = "circuits"),
     qobj_payload |-> (source = "qobj")]

\* QuantinuumJob.__init__: from a list of circuits, from a qobj, or from the
\* id of a job submitted earlier (None, 0, if the caller gave none).  The
\* creation date -1 is the time of construction.
NewJob(source, n, job_id) ==
    [status |-> IF source = "circuits" THEN "unset" ELSE "JobStatus.INITIALIZING",
     job_id |-> job_id,
     job_ids |-> IF source = "job_id" THEN <<job_id>> ELSE <<>>,
     api_error_msg |-> "None",
     result |-> NoResult,
     experiment_results |-> <<>>,
     creation_date |-> -1,
     experiments |-> IF source = "job_id" THEN 0 ELSE n,
     circuits_job |-> (source = "circuits"),
     qobj_payload |-> (source = "qobj")]

Init ==
    /\ \E source \in {"circuits", "qobj", "job_id"}, n \in 1..MaxExp, job_id \in {0, 1} :
          /\ source = "job_id" \/ job_id = 0
          /\ source # "job_id" \/ n = 1
          /\ Is(NewJob(source, n, job_id))
          /\ next_id = IF source = "job_id" THEN 2 ELSE 1
    /\ op = "init"
    /\ exc = "none"
    /\ ret = NoRet
    /\ calls = <<>>
    /\ log = <<>>
    /\ returned = NoResult
    /\ built = NoResult
    /\ nOps = 0
    /\ wait = NoWait
    /\ codec = NoCodec
    /\ flow = NoFlow
    /\ machine = NoMachine
    /\ http = NoHttp
    /\ canon = NoCanon
    /\ run = NoRun
    /\ qiskitrc = NoQiskitrc

Ends(name, o) ==
    /\ nOps + 1 + o.faults <= MaxOps
    /\ Len(o.job.experiment_results) <= MaxEntries
    /\ Becomes(o.job)
    /\ op' = name
    /\ exc' = o.exc
    /\ ret' = o.ret
    /\ log' = o.log
    /\ calls' = <<>>
    /\ returned' = IF name = "result" /\ o.exc = "none" /\ returned = NoResult
                   THEN o.ret.result ELSE returned
    /\ built' = IF name = "status" /\ o.exc = "none" THEN o.job.result ELSE built
    /\ nOps' = nOps + 1 + o.faults
    /\ UNCHANGED <<next_id, wait, codec, flow, machine, http, canon, run, qiskitrc>>

Submit ==
    /\ nOps < MaxOps
    /\ Len(_job_ids) + _experiments <= MaxIds
    /\ \E o \in submit(Self, next_id) :
          /\ nOps + 1 + o.faults <= MaxOps
          /\ Becomes(o.job)
          /\ next_id' = o.next
          /\ op' = "submit"
          /\ exc' = o.exc
          /\ ret' = NoRet
          /\ calls' = o.calls
          /\ log' = <<>>
          /\ nOps' = nOps + 1 + o.faults
          /\ UNCHANGED <<returned, built, wait, codec, flow, machine, http, canon, run, qiskitrc>>

Status ==
    /\ nOps < MaxOps
    /\ \E o \in status(Self, NumTimeout(DefaultTimeout)) : Ends("status", o)

Result ==
    /\ nOps < MaxOps
    /\ \E o \in result(Self, NumTimeout(DefaultTimeout)) : Ends("result", o)

ErrorMessage ==
    /\ nOps < MaxOps
    /\ \E o \in error_message(Self) : Ends("error_message", o)

Cancel ==
    /\ nOps < MaxOps
    /\ \E o \in cancel(Self) : Ends("cancel", o)

Next == Submit \/ Status \/ Result \/ ErrorMessage \/ Cancel

Spec == Init /\ [][Next]_vars

\* ------------------------------------------- _get_status looked at by itself
\* Timeout arguments tried: none, negative, the default, and some large
\* enough for the waits of the poll loop to reach the 10 s cap.
WaitTimeouts == {-1, 0, 1, 300, 1500, 5000, 30000, 100000}

\* The _status a job may hold when _get_status is called.
WaitStatuses ==
    {"unset", "JobStatus.INITIALIZING", "queued", "completed",
     "JobStatus.DONE", "JobStatus.ERROR"}

\* A job in some status on which _get_status(job_id, timeout) is called.
InitWait ==
    /\ \E st \in WaitStatuses, job_id \in {0, 1},
          timeout \in {NumTimeout(t) : t \in WaitTimeouts} \cup {StrTimeout(1)} :
          /\ Is([NewJob("job_id", 1, job_id) EXCEPT !.status = st])
          /\ wait = [phase |-> "called", timeout |-> timeout, out |-> Nothing, io |-> <<>>]
    /\ next_id = 2
    /\ op = "init"
    /\ exc = "none"
    /\ ret = NoRet
    /\ calls = <<>>
    /\ log = <<>>
    /\ returned = NoResult
    /\ built = NoResult
    /\ nOps = 0
    /\ codec = NoCodec
    /\ flow = NoFlow
    /\ machine = NoMachine
    /\ http = NoHttp
    /\ canon = NoCanon
    /\ run = NoRun
    /\ qiskitrc = NoQiskitrc

\* The call runs to its end, in any of the ways the remote allows.
Await ==
    /\ wait.phase = "called"
    /\ \E o \in GetStatus(_status, _job_id, wait.timeout) :
          wait' = [wait EXCEPT !.phase = "ended", !.out = o.out, !.io = o.io]
    /\ UNCHANGED <<_status, _job_id, _job_ids, _api_error_msg, _result,
                   _experiment_results, _creation_date, _experiments, _circuits_job,
                   _qobj_payload, next_id, op, exc, ret, calls, log, returned, built, nOps,
                   codec, flow, machine, http, canon, run, qiskitrc>>

NextWait == Await

SpecWait == InitWait /\ [][NextWait]_vars

\* ------------------------------- the counts expression looked at by itself
\* The registers of n shots of w bits each.
RegisterValues(n, w) == [1..n -> [1..w -> {0, 1}]]

\* The 'results' objects of r registers of n shots each whose widths add up
\* to at most `bits`.  A width of 0 gives empty texts.
RECURSIVE ResultsOf(_, _, _)
ResultsOf(r, n, bits) ==
    IF r = 0 THEN {<<>>}
    ELSE UNION { {<<reg>> \o rest : reg \in RegisterValues(n, w),
                                    rest \in ResultsOf(r - 1, n, bits - w)}
                 : w \in 0..bits }

\* res with the last shot of its last register missing.
CutShort(res) ==
    IF res = <<>> \/ Last(res) = <<>> THEN res
    ELSE [res EXCEPT ![Len(res)] = SubSeq(@, 1, Len(@) - 1)]

\* A 'results' object of up to MaxRegs registers and up to MaxShots shots,
\* of up to MaxCodecBits bits in all, the registers of equal length or the
\* last one a shot short.
InitCodec ==
    /\ \E r \in 0..MaxRegs, n \in 0..MaxShots, short \in BOOLEAN :
          \E res \in ResultsOf(r, n, IF n = 0 THEN 0 ELSE MaxCodecBits \div n) :
             codec = [phase |-> "input",
                      res |-> IF short THEN CutShort(res) ELSE res,
                      raises |-> FALSE, counts |-> <<>>]
    /\ Is(NewJob("job_id", 1, 1))
    /\ next_id = 2
    /\ op = "init"
    /\ exc = "none"
    /\ ret = NoRet
    /\ calls = <<>>
    /\ log = <<>>
    /\ returned = NoResult
    /\ built = NoResult
    /\ nOps = 0
    /\ wait = NoWait
    /\ flow = NoFlow
    /\ machine = NoMachine
    /\ http = NoHttp
    /\ canon = NoCanon
    /\ run = NoRun
    /\ qiskitrc = NoQiskitrc

\* The counts expression is evaluated on the object.
Encode ==
    /\ codec.phase = "input"
    /\ codec' = [codec EXCEPT !.phase = "done",
                              !.raises = CountsRaises(codec.res),
                              !.counts = IF CountsRaises(codec.res)
                                         THEN <<>> ELSE Counts(codec.res)]
    /\ UNCHANGED <<_status, _job_id, _job_ids, _api_error_msg, _result,
                   _experiment_results, _creation_date, _experiments, _circuits_job,
                   _qobj_payload, next_id, op, exc, ret, calls, log, returned, built, nOps,
                   wait, flow, machine, http, canon, run, qiskitrc>>

NextCodec == Encode

SpecCodec == InitCodec /\ [][NextCodec]_vars

\* ------------------- one status() or result() call, statement by statement
\* What the call did: it entered _get_status for the job id at position pos
\* of _job_ids ("await"), asked the remote about it ("query"), received a
\* websocket message for it ("recv"), _get_status returned for it
\* ("return"); _process_results built experiment result pos ("build").
FlowEv(name, pos) == [ev |-> name, pos |-> pos]

\* A variant of the end of the loop over the job ids that stops after the
\* first id.
LoopDone_after_first(i, ids) == i > 1 \/ i > Len(ids)

\* `for job_id in self._job_ids` has run through when it is at position i.
LoopDone(i, ids) == i > Len(ids)

\* The jobs a call may be made on: made from a job id, or from circuits or a
\* qobj and submitted.
FlowJobs ==
    {NewJob("job_id", 1, job_id) : job_id \in {0, 1}}
    \cup
    UNION { {s.job : s \in {o \in submit(NewJob(source, n, 0), 1) : o.exc = "none"}}
            : source \in {"circuits", "qobj"}, n \in 1..MaxExp }

InitFlow ==
    /\ \E j \in FlowJobs :
          /\ Is(j)
          /\ next_id = IF j.experiments = 0 THEN 2 ELSE Len(j.job_ids) + 1
    /\ flow = [phase |-> "idle", call |-> "-", i |-> 0, residual |-> 0, delay |-> 0,
               events |-> <<>>, exc |-> "none"]
    /\ op = "init"
    /\ exc = "none"
    /\ ret = NoRet
    /\ calls = <<>>
    /\ log = <<>>
    /\ returned = NoResult
    /\ built = NoResult
    /\ nOps = 0
    /\ wait = NoWait
    /\ codec = NoCodec
    /\ machine = NoMachine
    /\ http = NoHttp
    /\ canon = NoCanon
    /\ run = NoRun
    /\ qiskitrc = NoQiskitrc

\* What no step of the call touches.
FlowFrame ==
    UNCHANGED <<_job_id, _job_ids, _api_error_msg, _creation_date, _experiments,
                _circuits_job, _qobj_payload, next_id, op, exc, ret, calls, log, returned,
                built, nOps, wait, codec, machine, http, canon, run, qiskitrc>>

\* _get_status returns r for the job id awaited, the loop appends it and
\* moves on; evs is what the call has done by then.
FlowReturns(r, evs) ==
    /\ _experiment_results' = Append(_experiment_results, r)
    /\ flow' = [flow EXCEPT !.phase = "loop", !.i = @ + 1,
                            !.events = Append(evs, FlowEv("return", flow.i))]
    /\ UNCHANGED <<_status, _result>>

\* The call ends in exception e.
FlowRaises(e, evs) ==
    /\ flow' = [flow EXCEPT !.phase = "raised", !.exc = e, !.events = evs]
    /\ UNCHANGED <<_status, _result, _experiment_results>>

\* status() or result() is called; result() returns a cached Result at once.
FlowCall ==
    /\ flow.phase = "idle"
    /\ \E c \in {"status", "result"} :
          flow' = IF c = "result" /\ _result # NoResult
                  THEN [flow EXCEPT !.phase = "returned", !.call = c]
                  ELSE [flow EXCEPT !.phase = "loop", !.call = c, !.i = 1]
    /\ UNCHANGED <<_status, _result, _experiment_results>>
    /\ FlowFrame

\* The head of the loop over _job_ids, and the entry of _get_status for the
\* next job id.
FlowLoop ==
    /\ flow.phase = "loop"
    /\ IF LoopDone(flow.i, _job_ids)
       THEN /\ flow' = [flow EXCEPT !.phase = "process"]
            /\ UNCHANGED <<_status, _result, _experiment_results>>
       ELSE LET evs == Append(flow.events, FlowEv("await", flow.i))
            IN  IF _status = "unset"
                THEN FlowRaises("AttributeError", evs)
                ELSE IF _job_ids[flow.i] = 0 \/ _status \in JOB_FINAL_STATES
                THEN FlowReturns(StatusEntry(_status), evs)
                ELSE /\ flow' = [flow EXCEPT !.phase = "query", !.events = evs]
                     /\ UNCHANGED <<_status, _result, _experiment_results>>
    /\ FlowFrame

\* The first job_status request of _get_status and the branch it selects.
FlowQuery ==
    /\ flow.phase = "query"
    /\ LET evs == Append(flow.events, FlowEv("query", flow.i))
           residual_delay == DefaultTimeout * 4
       IN  \/ FlowRaises("JobError", evs)
           \/ /\ flow' = [flow EXCEPT !.phase = "push", !.events = evs]
              /\ UNCHANGED <<_status, _result, _experiment_results>>
           \/ \E r \in Payloads(_job_ids[flow.i]) :
                 IF r.status \in PollFinal
                 THEN FlowReturns(r, evs)
                 ELSE /\ flow' = [flow EXCEPT !.phase = "poll", !.events = evs,
                                              !.residual = residual_delay,
                                              !.delay = Min(4000, residual_delay)]
                      /\ UNCHANGED <<_status, _result, _experiment_results>>
    /\ FlowFrame

\* One turn of the poll loop: sleep, ask again, count the budget down.
FlowPoll ==
    /\ flow.phase = "poll"
    /\ LET evs == Append(flow.events, FlowEv("query", flow.i))
           residual2 == flow.residual - flow.delay
       IN  IF flow.delay < 0
           THEN FlowRaises("JobError", flow.events)
           ELSE \/ FlowRaises("JobError", evs)
                \/ \E r \in Payloads(_job_ids[flow.i]) :
                      IF residual2 <= 0 \/ r.status \in PollFinal
                      THEN FlowReturns(r, evs)
                      ELSE /\ flow' = [flow EXCEPT
                                         !.events = evs,
                                         !.residual = residual2,
                                         !.delay = Min(Min((flow.delay * 3) \div 2, 40000),
                                                       residual2)]
                           /\ UNCHANGED <<_status, _result, _experiment_results>>
    /\ FlowFrame

\* The websocket branch: connect, send the handshake, receive one message.
FlowPush ==
    /\ flow.phase = "push"
    /\ \/ FlowRaises("JobError", flow.events)
       \/ \E r \in Payloads(_job_ids[flow.i]) :
             FlowReturns(r, Append(flow.events, FlowEv("recv", flow.i)))
    /\ FlowFrame

\* _process_results and the end of the call.
FlowProcess ==
    /\ flow.phase = "process"
    /\ LET p == ProcessLoop(Self, 1, "JobStatus.DONE", <<>>)
           evs == flow.events \o [k \in 1..Len(p.results) |-> FlowEv("build", k)]
       IN  \E backend_ok \in BOOLEAN :
              LET a == Assemble(Self, p, backend_ok)
              IN  /\ _status' = a.status
                  /\ _result' = IF a.exc = "none" THEN a.result ELSE _result
                  /\ flow' = [flow EXCEPT
                                !.events = evs,
                                !.phase = IF a.exc # "none" THEN "raised"
                                          ELSE IF /\ flow.call = "result"
                                                  /\ a.status \notin {"JobStatus.DONE",
                                                                      "JobStatus.CANCELLED"}
                                          THEN "raised"
                                          ELSE "returned",
                                !.exc = IF a.exc # "none" THEN a.exc
                                        ELSE IF /\ flow.call = "result"
                                                /\ a.status \notin {"JobStatus.DONE",
                                                                    "JobStatus.CANCELLED"}
                                        THEN "JobError"
                                        ELSE "none"]
    /\ UNCHANGED _experiment_results
    /\ FlowFrame

NextFlow == FlowCall \/ FlowLoop \/ FlowQuery \/ FlowPoll \/ FlowPush \/ FlowProcess

SpecFlow == InitFlow /\ [][NextFlow]_vars


\* ------------------------------------------- Backend.status looked at by itself
\* The JSON object of a machine-status response: `version` and `state` are
\* texts ("absent" when the key is missing), `pending_jobs` and `pending_obs`
\* numbers that count only when has_pending_jobs, has_pending_obs say the
\* key is there.
MachineResponses ==
    [version : {"absent", "1.0"},
     state : {"absent", "", "online"},
     has_pending_jobs : {TRUE}, pending_jobs : (-1)..MaxPending,
     has_pending_obs : {FALSE}, pending_obs : {0}]
    \cup
    [version : {"absent", "1.0"},
     state : {"absent", "", "online"},
     has_pending_jobs : {FALSE}, pending_jobs : {0},
     has_pending_obs : BOOLEAN, pending_obs : (-1)..MaxPending]
    \cup
    [version : {"absent", "1.0"},
     state : {"absent", "", "online"},
     has_pending_jobs : {TRUE}, pending_jobs : (-1)..MaxPending,
     has_pending_obs : {TRUE}, pending_obs : (-1)..MaxPending]

\* No status record: the call raised.
NoBackendStatus ==
    [backend_name |-> "-", backend_version |-> "-", status_msg |-> "-",
     operational |-> FALSE, pending_jobs |-> 0]

\* Backend.status() given the response of the machine-status request: the
\* record it returns, or the exception it raises.
Backend_status(backend_name, response) ==
    LET rec == [backend_name |-> backend_name,
                backend_version |-> IF response.version = "absent"
                                    THEN "0.0.0" ELSE response.version,
                status_msg |-> IF response.state = "absent" THEN "" ELSE response.state,
                operational |-> response.state \notin {"absent", ""}]
    IN  IF response.has_pending_jobs
        THEN \* max(response['pending_obs'], 0)
             IF response.has_pending_obs
             THEN [raised |-> "none",
                   ret |-> rec @@ [pending_jobs |-> Max(response.pending_obs, 0)]]
             ELSE [raised |-> "KeyError", ret |-> NoBackendStatus]
        ELSE [raised |-> "none", ret |-> rec @@ [pending_jobs |-> 0]]

InitMachine ==
    /\ \E response \in MachineResponses :
          machine = [phase |-> "response", response |-> response, raised |-> "none",
                     ret |-> NoBackendStatus]
    /\ Is(NewJob("job_id", 1, 1))
    /\ next_id = 2
    /\ op = "init"
    /\ exc = "none"
    /\ ret = NoRet
    /\ calls = <<>>
    /\ log = <<>>
    /\ returned = NoResult
    /\ built = NoResult
    /\ nOps = 0
    /\ wait = NoWait
    /\ codec = NoCodec
    /\ flow = NoFlow
    /\ http = NoHttp
    /\ canon = NoCanon
    /\ run = NoRun
    /\ qiskitrc = NoQiskitrc

\* Backend.status() maps the response.
MapStatus ==
    /\ machine.phase = "response"
    /\ \E o \in {Backend_status("machine", machine.response)} :
          machine' = [machine EXCEPT !.phase = "done", !.raised = o.raised, !.ret = o.ret]
    /\ UNCHANGED <<_status, _job_id, _job_ids, _api_error_msg, _result,
                   _experiment_results, _creation_date, _experiments, _circuits_job,
                   _qobj_payload, next_id, op, exc, ret, calls, log, returned, built, nOps,
                   wait, codec, flow, http, canon, run, qiskitrc>>

NextMachine == MapStatus

SpecMachine == InitMachine /\ [][NextMachine]_vars


\* ------------------------------------- RetrySession.request looked at by itself
\* Texts are sequences of characters.  The characters a message or a token
\* is written in:
Chars == {"a", "b", "."}

\* The texts of at most n characters.
Texts(n) == UNION {[1..k -> Chars] : k \in 0..n}

\* text holds tok from place i on.
OccursAt(text, tok, i) ==
    /\ i + Len(tok) - 1 <= Len(text)
    /\ SubSeq(text, i, i + Len(tok) - 1) = tok

\* The access tokens: id tokens in JWT form, parts of letters joined by
\* single dots.
Tokens ==
    {t \in Texts(MaxTokenLen) :
        /\ t # <<>>
        /\ t[1] # "." /\ t[Len(t)] # "."
        /\ \A i \in 1..(Len(t) - 1) : ~(t[i] = "." /\ t[i + 1] = ".")}

\* STATUS_FORCELIST
STATUS_FORCELIST == {500, 502, 503, 504}

\* How one attempt at the request may end: an HTTP status, or 0 for a
\* network failure.
AttemptOutcomes == {0, 200, 404, 500, 503}

\* A variant of str.replace that replaces the first occurrence only.
Replace_first(text, tok, rep) ==
    IF \E i \in 1..Len(text) : OccursAt(text, tok, i)
    THEN LET i == CHOOSE k \in 1..Len(text) :
                     /\ OccursAt(text, tok, k)
                     /\ \A k2 \in 1..(k - 1) : ~OccursAt(text, tok, k2)
         IN  SubSeq(text, 1, i - 1) \o rep \o SubSeq(text, i + Len(tok), Len(text))
    ELSE text

\* text.replace(tok, rep) for a non-empty tok: every occurrence, found from
\* left to right without overlap, gives way to rep.
RECURSIVE Replace(_, _, _)
Replace(text, tok, rep) ==
    IF Len(text) < Len(tok) THEN text
    ELSE IF OccursAt(text, tok, 1)
    THEN rep \o Replace(SubSeq(text, Len(tok) + 1, Len(text)), tok, rep)
    ELSE <<Head(text)>> \o Replace(Tail(text), tok, rep)

\* RequestsApiError(ex, message): the client-level exception, carrying the
\* message it is given.
RequestsApiError(ex, message) == [class |-> "RequestsApiError", message |-> message]

\* No exception.
NoError == [class |-> "-", message |-> <<>>]

\* The except clause of request(): message is str(ex), token the session's
\* access token (no text when the session has no credentials).
Wrapped(ex, message, has_credentials, token) ==
    RequestsApiError(ex, IF has_credentials
                         THEN Replace(message, token, <<".", ".", ".">>)
                         ELSE message)

\* A session with or without credentials, a retry count and proxies (none,
\* a dict with 'urls', a dict without), on which request() is called.
InitHttp ==
    /\ \E has_credentials \in BOOLEAN, token \in Tokens, retries \in 0..MaxRetries,
          proxies \in {"none", "urls", "other"} :
          /\ has_credentials \/ token = CHOOSE t \in Tokens : TRUE
          /\ http = [phase |-> "called", has_credentials |-> has_credentials,
                     token |-> token, retries |-> retries, proxies |-> proxies,
                     attempts |-> 0, ex |-> "-", message |-> <<>>, error |-> NoError]
    /\ Is(NewJob("job_id", 1, 1))
    /\ next_id = 2
    /\ op = "init"
    /\ exc = "none"
    /\ ret = NoRet
    /\ calls = <<>>
    /\ log = <<>>
    /\ returned = NoResult
    /\ built = NoResult
    /\ nOps = 0
    /\ wait = NoWait
    /\ codec = NoCodec
    /\ flow = NoFlow
    /\ machine = NoMachine
    /\ canon = NoCanon
    /\ run = NoRun
    /\ qiskitrc = NoQiskitrc

HttpFrame ==
    UNCHANGED <<_status, _job_id, _job_ids, _api_error_msg, _result,
                _experiment_results, _creation_date, _experiments, _circuits_job,
                _qobj_payload, next_id, op, exc, ret, calls, log, returned, built, nOps,
                wait, codec, flow, machine, canon, run, qiskitrc>>

\* The request has failed with exception class ex whose text is message;
\* what the except clause does not read is dropped.
Failing(ex, message) ==
    [http EXCEPT !.phase = "failing", !.ex = ex, !.message = message,
                 !.retries = 0, !.attempts = 0, !.proxies = "none"]

\* One attempt of super().request under the retry policy, followed by
\* raise_for_status() when a response comes back.
Send ==
    /\ http.phase = "called"
    /\ IF http.proxies = "other"
       THEN \* self.proxies['urls'] raises KeyError, which is no RequestException
            http' = [http EXCEPT !.phase = "raised",
                                 !.error = [class |-> "KeyError", message |-> <<>>]]
       ELSE \E outcome \in AttemptOutcomes :
               IF outcome = 200
               THEN http' = [http EXCEPT !.phase = "returned"]
               ELSE IF outcome \notin STATUS_FORCELIST \cup {0}
               THEN \E message \in Texts(MaxMsgLen) :
                       http' = Failing("HTTPError", message)
               ELSE IF http.attempts < http.retries
               THEN http' = [http EXCEPT !.attempts = @ + 1]
               ELSE \E message \in Texts(MaxMsgLen) :
                       http' = Failing(IF outcome = 0 THEN "ConnectionError"
                                       ELSE "RetryError", message)
    /\ HttpFrame

\* except RequestException as ex: ... raise RequestsApiError(ex, message)
Wrap ==
    /\ http.phase = "failing"
    /\ http' = [http EXCEPT
                  !.phase = "raised",
                  !.error = Wrapped(http.ex, http.message, http.has_credentials, http.token)]
    /\ HttpFrame

NextHttp == Send \/ Wrap

SpecHttp == InitHttp /\ [][NextHttp]_vars


\* ------------------------------------------------ Credentials._canonicalize_url
\* A URL is a sequence of symbols: the texts 'https:' and 'http:' and the host
\* name 'api.quantinuum.com' are one symbol each, "/" is the slash, "v" the
\* letter v, "1" a digit, "A" any other character of a path and "q" any
\* other character of a host prefix.
HTTPS == <<"https:", "/", "/">>

HTTP == <<"http:", "/", "/">>

HOST == "api.quantinuum.com"

\* _API_URL = 'https://qapi.quantinuum.com'
_API_URL == HTTPS \o <<"q", HOST>>

\* _API_VERSION = 'v1'
_API_VERSION == <<"v", "1">>

\* [0-9]
Digit == {"1"}

\* The sequences over S of length at most n.
SeqsUpTo(S, n) == UNION {[1..k -> S] : k \in 0..n}

\* How many symbols of text from position p + 1 on are in S, up to the first
\* that is not: what a greedy S* takes there.
Greedy(text, p, S) ==
    CHOOSE k \in 0..(Len(text) - p) :
        /\ \A i \in 1..k : text[p + i] \in S
        /\ p + k = Len(text) \/ text[p + k + 1] \notin S

\* text[a..b]
Slice(text, a, b) == SubSeq(text, a, b)

\* Whether text continues with part after position p.
ContinuesWith(text, p, part) ==
    /\ p + Len(part) <= Len(text)
    /\ Slice(text, p + 1, p + Len(part)) = part

\* No match.
NoMatch ==
    [matched |-> FALSE, api_prefix |-> <<>>, api_base |-> <<>>, has_version |-> FALSE,
     api_version |-> <<>>, api_rest |-> <<>>]

\* (/+v[0-9]+)?/?(.*) applied after the host, which ends at position h: the
\* slashes are taken greedily, and the version group takes part only when
\* "v" and a digit follow them; then one slash is skipped if there is one
\* and the rest is the last group.
MatchTail(url, h, api_prefix) ==
    LET slashes == Greedy(url, h, {"/"})
        isV     == h + slashes < Len(url) /\ url[h + slashes + 1] = "v"
        digits  == IF isV THEN Greedy(url, h + slashes + 1, Digit) ELSE 0
        has     == slashes >= 1 /\ isV /\ digits >= 1
        e       == IF has THEN h + slashes + 1 + digits ELSE h
        skip    == IF e < Len(url) /\ url[e + 1] = "/" THEN 1 ELSE 0
    IN  [matched |-> TRUE, api_prefix |-> api_prefix, api_base |-> <<HOST>>,
         has_version |-> has,
         api_version |-> IF has THEN Slice(url, h + 1, e) ELSE <<>>,
         api_rest |-> Slice(url, e + skip + 1, Len(url))]

\* (https://)?([^/]*)(api.quantinuum.com) applied at the start of url, from
\* position p on for the prefix: the prefix is taken greedily up to the
\* first slash and given back symbol by symbol until the host follows it.
\* 0 when the host does not follow any such prefix.
HostAfter(url, p) ==
    LET NotSlash == {"https:", "http:", "v", "1", "A", "q", HOST}
        taken == Greedy(url, p, NotSlash)
        at    == {h \in (p + 1)..(p + taken) : url[h] = HOST}
    IN  IF at = {} THEN 0 ELSE CHOOSE h \in at : \A g \in at : g <= h

\* api_url_validator.match(url): the groups of the first match the
\* backtracking search finds, the scheme group tried present first.
Match(url) ==
    LET p1 == IF ContinuesWith(url, 0, HTTPS) THEN Len(HTTPS) ELSE 0
        h1 == HostAfter(url, p1)
        h0 == HostAfter(url, 0)
    IN  IF h1 # 0 THEN MatchTail(url, h1, Slice(url, p1 + 1, h1 - 1))
        ELSE IF h0 # 0 THEN MatchTail(url, h0, Slice(url, 1, h0 - 1))
        ELSE NoMatch

\* text.strip('/')
RECURSIVE Strip(_)
Strip(text) ==
    IF text = <<>> THEN <<>>
    ELSE IF Head(text) = "/" THEN Strip(Tail(text))
    ELSE IF Last(text) = "/" THEN Strip(Slice(text, 1, Len(text) - 1))
    ELSE text

\* A variant of _canonicalize_url that returns the version group as matched.
_canonicalize_url_unstripped(url) ==
    LET m == Match(url)
        valid_url == url # <<>> /\ m.matched /\ ~(m.api_rest # <<>> /\ ~m.has_version)
    IN  IF ~valid_url
        THEN [api_url |-> _API_URL, api_version |-> _API_VERSION]
        ELSE [api_url |-> HTTPS \o m.api_prefix \o m.api_base,
              api_version |-> IF m.has_version THEN m.api_version ELSE _API_VERSION]

\* A variant of _canonicalize_url that accepts a path without a version.
_canonicalize_url_any_rest(url) ==
    LET m == Match(url)
        valid_url == url # <<>> /\ m.matched
    IN  IF ~valid_url
        THEN [api_url |-> _API_URL, api_version |-> _API_VERSION]
        ELSE [api_url |-> HTTPS \o m.api_prefix \o m.api_base,
              api_version |-> IF m.has_version THEN Strip(m.api_version)
                              ELSE _API_VERSION]

\* Credentials._canonicalize_url(url); the empty sequence stands for '' and
\* for None. The prefix group is never None, so the elif never rejects.
_canonicalize_url(url) ==
    LET m == Match(url)
        valid_url == url # <<>> /\ m.matched /\ ~(m.api_rest # <<>> /\ ~m.has_version)
    IN  IF ~valid_url
        THEN [api_url |-> _API_URL, api_version |-> _API_VERSION]
        ELSE [api_url |-> HTTPS \o m.api_prefix \o m.api_base,
              api_version |-> IF m.has_version THEN Strip(m.api_version)
                              ELSE _API_VERSION]

\* The URL the parts of canon make up.
UrlOf(c) == c.scheme \o c.prefix \o c.host \o c.tail

NoCanonical == [api_url |-> <<>>, api_version |-> <<>>]

InitCanon ==
    /\ \E scheme \in {<<>>, HTTPS, HTTP},
          prefix \in SeqsUpTo({"q", HOST}, MaxPrefixLen),
          host \in {<<>>, <<HOST>>},
          tail \in SeqsUpTo({"/", "v", "1", "A"}, MaxTailLen) :
          canon = [phase |-> "called", scheme |-> scheme, prefix |-> prefix,
                   host |-> host, tail |-> tail, ret |-> NoCanonical]
    /\ Is(NewJob("job_id", 1, 1))
    /\ next_id = 2
    /\ op = "init"
    /\ exc = "none"
    /\ ret = NoRet
    /\ calls = <<>>
    /\ log = <<>>
    /\ returned = NoResult
    /\ built = NoResult
    /\ nOps = 0
    /\ wait = NoWait
    /\ codec = NoCodec
    /\ flow = NoFlow
    /\ machine = NoMachine
    /\ http = NoHttp
    /\ run = NoRun
    /\ qiskitrc = NoQiskitrc

\* The job and the other calls looked at are left alone.
JobFrame ==
    UNCHANGED <<_status, _job_id, _job_ids, _api_error_msg, _result,
                _experiment_results, _creation_date, _experiments, _circuits_job,
                _qobj_payload, next_id, op, exc, ret, calls, log, returned, built, nOps,
                wait, codec, flow, machine, http>>

\* self.api_url, self.api_version = Credentials._canonicalize_url(self.api_url)
Canonicalize ==
    /\ canon.phase = "called"
    /\ canon' = [canon EXCEPT !.phase = "done", !.ret = _canonicalize_url(UrlOf(canon))]
    /\ JobFrame
    /\ UNCHANGED <<run, qiskitrc>>

NextCanon == Canonicalize

SpecCanon == InitCanon /\ [][NextCanon]_vars


\* ----------------------------------------------------- QuantinuumBackend.run
\* Values of the priority option.
Priorities == {"low", "normal", "high"}

\* Options(shots=1024, priority='normal')
DefaultPriority == "normal"

\* A job configuration: the keys it has and their values; a value is read
\* only when its key is there.
JobConfig(has_shots, shots, has_priority, priority) ==
    [has_shots |-> has_shots, shots |-> IF has_shots THEN shots ELSE 0,
     has_priority |-> has_priority, priority |-> IF has_priority THEN priority ELSE "-"]

\* job_config of run() for circuits: the keyword arguments that are options
\* of the backend, and both defaults when shots is not among them. A keyword
\* argument that is no option is warned about and dropped.
RunConfig(has_shots, shots, has_priority, priority) ==
    IF has_shots
    THEN JobConfig(TRUE, shots, has_priority, priority)
    ELSE JobConfig(TRUE, DefaultShots, TRUE, DefaultPriority)

\* The payload Api.submit_job posts for one experiment under a job
\* configuration.
SubmitPayload(config) ==
    [count |-> IF config.has_shots THEN config.shots ELSE 1,
     priority |-> IF config.has_priority THEN config.priority ELSE "normal"]

InitRun ==
    /\ \E input \in {"circuit", "list", "qobj", "pulse"}, n \in 1..MaxExp,
          has_shots \in BOOLEAN, shots \in 1..MaxShots,
          has_priority \in BOOLEAN, priority \in Priorities, other \in BOOLEAN,
          qobj_shots \in 1..MaxShots :
          /\ input = "circuit" => n = 1
          /\ has_shots \/ shots = 1
          /\ has_priority \/ priority = DefaultPriority
          /\ input = "qobj" \/ qobj_shots = 1
          /\ run = [phase |-> "called", input |-> input, n |-> n,
                    has_shots |-> has_shots, shots |-> shots,
                    has_priority |-> has_priority, priority |-> priority,
                    other |-> other, qobj_shots |-> qobj_shots, warned |-> FALSE,
                    job_config |-> JobConfig(FALSE, 0, FALSE, "-"),
                    requests |-> <<>>, raised |-> "none"]
    /\ Is(NewJob("job_id", 1, 1))
    /\ next_id = 2
    /\ op = "init"
    /\ exc = "none"
    /\ ret = NoRet
    /\ calls = <<>>
    /\ log = <<>>
    /\ returned = NoResult
    /\ built = NoResult
    /\ nOps = 0
    /\ wait = NoWait
    /\ codec = NoCodec
    /\ flow = NoFlow
    /\ machine = NoMachine
    /\ http = NoHttp
    /\ canon = NoCanon
    /\ qiskitrc = NoQiskitrc

\* run() up to the construction of the job: a pulse input raises, a Qobj
\* brings the configuration it was assembled with and the keyword arguments
\* are not read, circuits get the configuration built from them.
Run ==
    /\ run.phase = "called"
    /\ run' = IF run.input = "pulse"
              THEN [run EXCEPT !.phase = "raised", !.raised = "QiskitError"]
              ELSE IF run.input = "qobj"
              THEN [run EXCEPT !.phase = "submitting",
                               !.job_config = JobConfig(TRUE, run.qobj_shots, FALSE, "-")]
              ELSE [run EXCEPT !.phase = "submitting", !.warned = run.other,
                               !.job_config = RunConfig(run.has_shots, run.shots,
                                                        run.has_priority, run.priority)]
    /\ JobFrame
    /\ UNCHANGED <<canon, qiskitrc>>

\* One turn of the loop of submit(): the request for the next experiment is
\* posted; an error in the response ends the loop, and so does the last
\* experiment.
Post ==
    /\ run.phase = "submitting"
    /\ \E error \in BOOLEAN :
          run' = [run EXCEPT
                    !.requests = Append(@, SubmitPayload(run.job_config)),
                    !.phase = IF error \/ Len(run.requests) + 1 = run.n
                              THEN "returned" ELSE @]
    /\ JobFrame
    /\ UNCHANGED <<canon, qiskitrc>>

NextRun == Run \/ Post

SpecRun == InitRun /\ [][NextRun]_vars


\* ---------------------------------------------------- Credentials.save_config
\* The keys save_config stores.
ConfigKeys == {"user_name", "api_url"}

\* Values of a key, stored or current.
ConfigValues == {"old", "new"}

\* The section after _save_qiskitrc has gone through the keys: a key is
\* written when the section lacks it or overwrite is false, and only with a
\* value that is not None.
SavedSection(stored, current, overwrite) ==
    [k \in ConfigKeys |->
        IF (stored[k] = "absent" \/ ~overwrite) /\ current[k] # "None"
        THEN current[k] ELSE stored[k]]

InitQiskitrc ==
    /\ \E parses \in BOOLEAN, overwrite \in BOOLEAN,
          stored \in [ConfigKeys -> ConfigValues \cup {"absent"}],
          user_name \in ConfigValues \cup {"None"}, api_url \in ConfigValues :
          qiskitrc = [phase |-> "called", parses |-> parses, overwrite |-> overwrite,
                      stored |-> stored,
                      current |-> [k \in ConfigKeys |->
                                      IF k = "user_name" THEN user_name ELSE api_url],
                      written |-> stored, raised |-> "none"]
    /\ Is(NewJob("job_id", 1, 1))
    /\ next_id = 2
    /\ op = "init"
    /\ exc = "none"
    /\ ret = NoRet
    /\ calls = <<>>
    /\ log = <<>>
    /\ returned = NoResult
    /\ built = NoResult
    /\ nOps = 0
    /\ wait = NoWait
    /\ codec = NoCodec
    /\ flow = NoFlow
    /\ machine = NoMachine
    /\ http = NoHttp
    /\ canon = NoCanon
    /\ run = NoRun

\* save_config(filename, overwrite): the file is read, the section updated
\* and the file written; a file that does not parse raises and nothing is
\* written.
SaveConfig ==
    /\ qiskitrc.phase = "called"
    /\ qiskitrc' =
          IF ~qiskitrc.parses
          THEN [qiskitrc EXCEPT !.phase = "raised",
                                !.raised = "QuantinuumCredentialsError"]
          ELSE [qiskitrc EXCEPT !.phase = "saved",
                                !.written = SavedSection(qiskitrc.stored, qiskitrc.current,
                                                         qiskitrc.overwrite)]
    /\ JobFrame
    /\ UNCHANGED <<canon, run>>

NextQiskitrc == SaveConfig

SpecQiskitrc == InitQiskitrc /\ [][NextQiskitrc]_vars


\* ------------------------------------------------------------- properties
\* Every job_submit response in cs is free of an error field.
AllOk(cs) == \A k \in DOMAIN cs : cs[k].resp.kind = "ok"

\* The remote ids the responses in cs returned, in call order.
ReturnedIds(cs) == [k \in DOMAIN cs |-> cs[k].resp.job]

\* Some job_submit response in cs carries an error field.
HasError(cs) == \E k \in DOMAIN cs : cs[k].resp.kind = "error"

C2_ErrorStopsSubmission ==
    [][ (op' = "submit" /\ HasError(calls'))
        => LET k == CHOOSE i \in DOMAIN calls' : calls'[i].resp.kind = "error"
           IN  /\ k = Len(calls')
               /\ \A i \in DOMAIN calls' : calls'[i].exp = i
               /\ exc' = "none"
               /\ _status' = "JobStatus.ERROR"
               /\ _api_error_msg' = calls'[k].resp.error
               /\ _job_ids' = _job_ids \o ReturnedIds(SubSeq(calls', 1, k - 1)) ]_vars

\* C2's case: two experiments, the second response carrying an error: only
\* the first experiment's id is filed.
C2_Witness ==
    /\ op = "submit" /\ Len(calls) = 2 /\ _experiments = 2
    /\ calls[1].resp.kind = "ok" /\ calls[2].resp.kind = "error"
    /\ _job_ids = <<1>>
    /\ _status = "JobStatus.ERROR"
    /\ _api_error_msg = "error text"

C4_LastResponseInfo ==
    (op = "submit" /\ exc = "none" /\ AllOk(calls))
    => /\ _job_id = Last(calls).resp.job
       /\ _status = Last(calls).resp.status
       /\ _creation_date = Last(calls).resp.date
       /\ _job_id # 0
       /\ _job_id = Last(_job_ids)

\* C4's case: two experiments submitted, the two responses differing in id
\* and status, the job showing the second's.
C4_Witness ==
    /\ op = "submit" /\ exc = "none" /\ AllOk(calls) /\ Len(calls) = 2
    /\ calls[1].resp.status # calls[2].resp.status
    /\ _job_id = 2 /\ _status = calls[2].resp.status

\* C5: once submit() has been called on a job, a further submit() makes no
\* job_submit call and leaves job_ids() as it was.
C5_NoResubmit ==
    [][ (op = "submit" /\ op' = "submit")
        => (calls' = <<>> /\ _job_ids' = _job_ids) ]_vars


\* A terminal status as the job may hold it: a JobStatus member, or the text
\* submit() copied from a submission response.
TerminalStatuses == JOB_FINAL_STATES \cup PollFinal

\* C6: _get_status does no remote I/O and returns the cached status whenever
\* the job id is None or the status the job holds is terminal, whichever
\* terminal status it is and wherever it came from (a submission response
\* included).
C6_TerminalShortCircuit ==
    \A k \in DOMAIN log :
        (log[k].job_id = 0 \/ log[k].cached \in TerminalStatuses)
        => (~log[k].queried /\ log[k].out = StatusEntry(log[k].cached))

\* C7: once result() has returned a Result, every later result() call
\* returns that same Result and makes no remote job-status query.
C7_ResultIdempotent ==
    [][ (returned # NoResult /\ op' = "result")
        => /\ exc' = "none"
           /\ ret'.result = returned
           /\ \A k \in DOMAIN log' : ~log'[k].queried ]_vars

C9_ResultOnlyWhenDone ==
    (op = "result" /\ exc = "none")
    => _status \in {"JobStatus.DONE", "JobStatus.CANCELLED"}

\* Some _get_status call in lg asked the remote and got a payload without
\* results: a job still running when the poll budget ran out, or an answer
\* that is not the final one.
NoFinalAnswer(lg) ==
    \E k \in DOMAIN lg :
        lg[k].queried /\ lg[k].out.kind = "payload" /\ ~lg[k].out.has_results

\* C10: a status() or result() call that fails because awaiting the status
\* went wrong (here: the wait ended without a final answer) fails with
\* JobError and leaves _status as it was before the call.
C10_FailedWaitKeepsStatus ==
    [][ (op' \in {"status", "result"} /\ exc' # "none" /\ NoFinalAnswer(log'))
        => (exc' = "JobError" /\ _status' = _status) ]_vars


\* The names of the events in io, in order.
Evs(io) == [k \in DOMAIN io |-> io[k].ev]

\* How many events named `name` io holds.
CountEv(io, name) == Cardinality({k \in DOMAIN io : io[k].ev = name})

\* The lengths of the sleeps in io, in order.
Waits(io) == [k \in DOMAIN SelectSeq(io, LAMBDA e : e.ev = "sleep") |->
                 SelectSeq(io, LAMBDA e : e.ev = "sleep")[k].d]

\* The sum of the first n numbers of w.
RECURSIVE SumTo(_, _)
SumTo(w, n) == IF n = 0 THEN 0 ELSE SumTo(w, n - 1) + w[n]

\* The call looked at has ended and its first job_status response carried a
\* 'websocket' handle.
PushCase ==
    /\ wait.phase = "ended" /\ wait.io # <<>>
    /\ wait.io[1].ev = "job_status" /\ wait.io[1].got.kind = "websocket"

\* The call looked at has ended, with a number for timeout, and its first
\* job_status response was a payload without a handle.
PollCase ==
    /\ wait.phase = "ended" /\ wait.io # <<>> /\ wait.timeout.num
    /\ wait.io[1].ev = "job_status" /\ wait.io[1].got.kind = "payload"

\* C11: when the first status response carries a websocket handle,
\* _get_status connects, sends the handshake carrying that handle before it
\* receives, receives one message, returns that message, and makes no
\* further job_status query.
C11_PushProtocol ==
    PushCase
    => /\ CountEv(wait.io, "job_status") = 1
       /\ CountEv(wait.io, "ws_recv") <= 1
       /\ (wait.out.kind # "raise"
           => /\ Evs(wait.io) = <<"job_status", "ws_connect", "ws_send", "ws_recv">>
              /\ wait.io[3].got = wait.io[1].got
              /\ wait.out = wait.io[4].got
              /\ wait.out.kind = "payload")

\* C11's case: a handle came, and the one message received was returned.
C11_Witness ==
    /\ PushCase /\ wait.out.kind = "payload" /\ wait.out.status = "completed"
    /\ Len(wait.io) = 4 /\ wait.io[4].ev = "ws_recv"

\* C12: in push mode a message that does not arrive within the timeout, or
\* any failure of the connection, ends _get_status with JobError: it neither
\* polls instead nor returns a payload.
C12_PushFailureRaises ==
    PushCase
    => /\ (Last(wait.io).ev # "ws_recv" \/ Last(wait.io).got.kind = "failure")
          => (wait.out.kind = "raise" /\ wait.out.status = "JobError")
       /\ CountEv(wait.io, "sleep") = 0
       /\ CountEv(wait.io, "job_status") = 1

\* C12's case: connected, handshake sent, no message within the timeout.
C12_Witness ==
    /\ PushCase /\ Last(wait.io) = Got("ws_recv", Failure(_job_id))
    /\ wait.out = Raised(_job_id, "JobError")

\* C13: with the timeout in seconds, the first wait of the poll loop is
\* min(1.0, timeout) seconds and each later wait is
\* min(previous * 1.5, 10.0, timeout - waits already spent).
C13_BackoffInSeconds ==
    PollCase
    => LET w == Waits(wait.io)
           budget == 4000 * wait.timeout.val
       IN  \A k \in DOMAIN w :
             w[k] = IF k = 1
                    THEN Min(4000, budget)
                    ELSE Min(Min((w[k - 1] * 3) \div 2, 40000), budget - SumTo(w, k - 1))

\* C14: every wait of the poll loop is at most 10 seconds and at most the
\* budget remaining when it starts, whatever the timeout and the responses.
\* The budget the loop counts down is timeout/1000 seconds, so the waits stay
\* within `timeout` seconds as well.
C14_WaitWithinCapAndBudget ==
    PollCase
    => LET w == Waits(wait.io)
       IN  \A k \in DOMAIN w :
             /\ w[k] >= 0
             /\ w[k] <= 40000
             /\ w[k] <= 4 * wait.timeout.val - SumTo(w, k - 1)
             /\ w[k] <= 4000 * wait.timeout.val - SumTo(w, k - 1)

\* C14's case: a poll loop whose waits grew to the 10 s cap and whose last
\* wait was cut to what remained of the budget.
C14_Witness ==
    /\ PollCase
    /\ \E k \in DOMAIN Waits(wait.io) : Waits(wait.io)[k] = 40000
    /\ Len(Waits(wait.io)) >= 2
    /\ Last(Waits(wait.io)) < 40000
    /\ SumTo(Waits(wait.io), Len(Waits(wait.io))) = 4 * wait.timeout.val

\* C15: the poll loop ends without raising only when the last payload's
\* status is failed, completed or canceled, or when the budget is used up;
\* it then returns the payload fetched last as it is, final or not, and it
\* never fetches again after a final payload.
C15_PollLoopStops ==
    (PollCase /\ wait.out.kind # "raise")
    => LET w == Waits(wait.io)
       IN  /\ wait.out = Last(wait.io).got
           /\ Last(wait.io).ev = "job_status"
           /\ (wait.out.status \in PollFinal
               \/ (w # <<>> /\ SumTo(w, Len(w)) >= 4 * wait.timeout.val))
           /\ \A k \in 1..(Len(wait.io) - 1) : wait.io[k].got.status \notin PollFinal

\* C15's case: the job was still running when the budget ran out, and the
\* running payload was returned.
C15_Witness ==
    /\ PollCase /\ wait.out.kind = "payload" /\ wait.out.status = "running"
    /\ Len(Waits(wait.io)) >= 2
    /\ SumTo(Waits(wait.io), Len(Waits(wait.io))) >= 4 * wait.timeout.val


\* Some payload among the entries reports status 'failed'.
SomeFailed(entries) ==
    \E k \in DOMAIN entries :
        entries[k].kind = "payload" /\ StatusOf(entries[k]) = "failed"

\* The last operation ran _process_results to its end: a status() that
\* returned, or a result() that awaited its job ids and then returned or
\* refused the status.
Processed ==
    \/ op = "status" /\ exc = "none"
    \/ /\ op = "result" /\ log # <<>> /\ exc \in {"none", "JobError"}
       /\ \A k \in DOMAIN log : log[k].out.kind # "raise"

\* C16: after _process_results has run over the collected payloads, the
\* job's status is ERROR and the Result's success is false exactly when some
\* payload reports 'failed'; otherwise the status is DONE and success is true.
C16_OverallStatus ==
    Processed
    => /\ _status = IF SomeFailed(_experiment_results)
                    THEN "JobStatus.ERROR" ELSE "JobStatus.DONE"
       /\ _result # NoResult
       /\ _result.success = ~SomeFailed(_experiment_results)

\* C16's case: two payloads collected, the first completed and the second
\* failed: status ERROR, success false.
C16_Witness ==
    /\ Processed /\ Len(_experiment_results) = 2
    /\ _experiment_results[1].status = "completed"
    /\ _experiment_results[2].status = "failed"
    /\ _status = "JobStatus.ERROR" /\ _result.success = FALSE


\* The counts expression has been evaluated and has not raised.
Encoded == codec.phase = "done" /\ ~codec.raises

\* The sum of the counts c gives the keys in ks.
RECURSIVE SumCounts(_, _)
SumCounts(c, ks) ==
    IF ks = {} THEN 0
    ELSE LET key == CHOOSE x \in ks : TRUE
         IN  c[key] + SumCounts(c, ks \ {key})

\* The shots the payload returned for every register: as many as its
\* shortest register holds.
Shots(res) ==
    IF res = <<>> THEN 0
    ELSE CHOOSE n \in 0..(MaxShots + 1) :
            /\ \E i \in DOMAIN res : Len(res[i]) = n
            /\ \A i \in DOMAIN res : Len(res[i]) >= n

RECURSIVE Pow2(_)
Pow2(n) == IF n = 0 THEN 1 ELSE 2 * Pow2(n - 1)

\* The number the bits b spell in base 2, from bit i on: each bit times the
\* weight of its place.
RECURSIVE PlaceSum(_, _)
PlaceSum(b, i) ==
    IF i > Len(b) THEN 0 ELSE b[i] * Pow2(Len(b) - i) + PlaceSum(b, i + 1)

\* The bits shot k has in the registers after register i.
RECURSIVE WidthAfter(_, _, _)
WidthAfter(res, k, i) ==
    IF i >= Len(res) THEN 0 ELSE Len(res[i + 1][k]) + WidthAfter(res, k, i + 1)

\* The number shot k spells when its values are put side by side in register
\* order, from register i on.
RECURSIVE ShotValue(_, _, _)
ShotValue(res, k, i) ==
    IF i > Len(res) THEN 0
    ELSE PlaceSum(res[i][k], 1) * Pow2(WidthAfter(res, k, i)) + ShotValue(res, k, i + 1)

\* C17: the counts of a payload add up to the number of shots it returned:
\* N when every register holds N shots (in general, as many as the shortest
\* register holds); no shot is dropped or counted twice.
C17_CountsPreserveShots ==
    Encoded
    => /\ SumCounts(codec.counts, DOMAIN codec.counts) = Shots(codec.res)
       /\ \A n \in 0..MaxShots :
            (codec.res # <<>> /\ \A i \in DOMAIN codec.res : Len(codec.res[i]) = n)
            => SumCounts(codec.counts, DOMAIN codec.counts) = n

\* C17's case: two registers of three shots each, two of the shots alike:
\* two keys, the counts adding up to three.
C17_Witness ==
    /\ Encoded /\ Len(codec.res) = 2
    /\ Len(codec.res[1]) = 3 /\ Len(codec.res[2]) = 3
    /\ Cardinality(DOMAIN codec.counts) = 2
    /\ SumCounts(codec.counts, DOMAIN codec.counts) = 3

\* The counts of 100 shots of one one-bit register, 60 zeros and 40 ones.
Counts100 == Counts(<< [k \in 1..100 |-> IF k <= 60 THEN <<0>> ELSE <<1>>] >>)

\* C18: each key of the counts is the hexadecimal text of one shot's bits,
\* the values of the shot in all registers side by side in register order
\* read in base 2, and counts how many shots spell that number; two shots of
\* the same width with different bits never share a key; 60 zeros and 40
\* ones give {"0x0": 60, "0x1": 40}.
C18_KeysAreHexOfShots ==
    /\ Encoded
       => LET n == Shots(codec.res)
              key(k) == Hex(ShotValue(codec.res, k, 1))
          IN  /\ DOMAIN codec.counts = {key(k) : k \in 1..n}
              /\ \A k \in 1..n :
                    codec.counts[key(k)] =
                        Cardinality({k2 \in 1..n : ShotValue(codec.res, k2, 1)
                                                   = ShotValue(codec.res, k, 1)})
              /\ \A k, k2 \in 1..n :
                    (\E i \in DOMAIN codec.res : codec.res[i][k] # codec.res[i][k2])
                    => key(k) # key(k2)
    /\ Counts100 = ("0x0" :> 60) @@ ("0x1" :> 40)
    /\ Hex(0) = "0x0" /\ Hex(10) = "0xa" /\ Hex(45) = "0x2d"

\* C18's case: one shot, 10 in a two-bit register and 1101 in a four-bit
\* one: 101101 is 45, the key "0x2d".
C18_Witness ==
    /\ Encoded
    /\ codec.res = << << <<1, 0>> >>, << <<1, 1, 0, 1>> >> >>
    /\ codec.counts = ("0x2d" :> 1)


\* The job ids the _get_status calls in lg were made for, in order.
Awaited(lg) == [k \in DOMAIN lg |-> lg[k].job_id]

\* C19: the first status() or result() on a submitted job (it holds job ids,
\* has gathered no payload and cached no Result yet) awaits the job ids in
\* job_ids() order, and the Result it builds holds one experiment result per
\* job id, the i-th built from the payload fetched for job_ids()[i] and
\* carrying that id.
C19_ResultsInSubmissionOrder ==
    [][ (/\ _job_ids # <<>> /\ _experiment_results = <<>> /\ _result = NoResult
         /\ op' \in {"status", "result"})
        => /\ Awaited(log') = SubSeq(_job_ids, 1, Len(log'))
           /\ (\A k \in DOMAIN log' : log'[k].out.kind # "raise")
              => Len(log') = Len(_job_ids)
           /\ _result' # NoResult
              => /\ Len(_result'.results) = Len(_job_ids)
                 /\ \A i \in DOMAIN _job_ids :
                      /\ log'[i].out.kind = "payload"
                      /\ log'[i].out.job = _job_ids[i]
                      /\ _experiment_results'[i] = log'[i].out
                      /\ _result'.results[i].job_id = _job_ids[i]
                      /\ _result'.results[i].success = (log'[i].out.status = "completed")
                      /\ _result'.results[i].counts = Counts(log'[i].out.results) ]_vars

\* C19's case: two job ids, a first status() that fetched a completed and a
\* failed payload and built the two experiment results in that order.
C19_Witness ==
    /\ op = "status" /\ exc = "none"
    /\ _job_ids = <<1, 2>> /\ Len(_experiment_results) = 2
    /\ Len(_result.results) = 2
    /\ _result.results[1].job_id = 1 /\ _result.results[1].success
    /\ _result.results[2].job_id = 2 /\ ~_result.results[2].success

\* C20: error_message() returns None when the job's status is no error
\* status and a message (the captured text or the fallback) when it is; in
\* particular, after a status() that returned ERROR for a job of one failed
\* experiment, error_message() returns a message.
C20_ErrorMessageAfterFailure ==
    [][ (/\ op = "status" /\ exc = "none" /\ ret.status = "JobStatus.ERROR"
         /\ Len(_job_ids) = 1
         /\ op' = "error_message")
        => (exc' = "none" /\ ret'.msg \notin {"None", "-"}) ]_vars


\* C21: the success flag of an experiment result is true if and only if the
\* status of the payload it was built from is 'completed'.  (_process_results
\* builds result i from entry i of _experiment_results, and entries are only
\* ever appended.)
C21_SuccessIffCompleted ==
    _result # NoResult
    => \A i \in DOMAIN _result.results :
          /\ i <= Len(_experiment_results)
          /\ _result.results[i].success
             = (StatusOf(_experiment_results[i]) = "completed")

\* C21's case: a Result of two experiments, the first built from a completed
\* payload and the second from a canceled one that still carried results.
C21_Witness ==
    /\ _result # NoResult /\ Len(_result.results) = 2
    /\ _experiment_results[1].status = "completed" /\ _result.results[1].success
    /\ _experiment_results[2].status = "canceled" /\ ~_result.results[2].success

\* Two result() calls ended alike: the same exception if any, the same job
\* ids awaited with the same answers, and, if a Result was returned, the same
\* overall success and the same counts and success per experiment.
SameAnswer(o, e, r, lg) ==
    /\ o.exc = e
    /\ Len(o.log) = Len(lg)
    /\ \A k \in DOMAIN lg :
          /\ o.log[k].job_id = lg[k].job_id
          /\ o.log[k].out = lg[k].out
          /\ o.log[k].queried = lg[k].queried
    /\ (o.ret.result = NoResult) = (r.result = NoResult)
    /\ r.result # NoResult
       => /\ o.ret.result.success = r.result.success
          /\ Len(o.ret.result.results) = Len(r.result.results)
          /\ \A i \in DOMAIN r.result.results :
                /\ o.ret.result.results[i].counts = r.result.results[i].counts
                /\ o.ret.result.results[i].success = r.result.results[i].success
                /\ o.ret.result.results[i].job_id = r.result.results[i].job_id

\* C22: a job made from a remote job id alone holds job_ids() = [job_id],
\* and its result() awaits that id and, given the same remote answers, ends
\* as result() ends on the job that submitted the experiment: every way
\* result() ends on the submitting job is a way it ends on the job made from
\* the id, and the other way round.
C22_RetrievedJobEquivalent ==
    [][ /\ (/\ op = "submit" /\ exc = "none" /\ AllOk(calls) /\ Len(calls) = 1
            /\ _job_ids = <<_job_id>> /\ _result = NoResult
            /\ op' = "result")
           => /\ NewJob("job_id", 1, _job_id).job_ids = _job_ids
              /\ \A k \in DOMAIN log' : log'[k].job_id = _job_id
              /\ \E o \in result(NewJob("job_id", 1, _job_id), NumTimeout(DefaultTimeout)) :
                    SameAnswer(o, exc', ret', log')
        /\ (/\ op = "init" /\ _experiments = 0 /\ _job_id # 0
            /\ op' = "result")
           => /\ _job_ids = <<_job_id>> /\ _job_ids' = _job_ids
              /\ \A k \in DOMAIN log' : log'[k].job_id = _job_id
              /\ \E s \in submit(NewJob("circuits", 1, 0), _job_id) :
                    /\ s.exc = "none" /\ AllOk(s.calls) /\ s.job.job_ids = _job_ids
                    /\ \E o \in result(s.job, NumTimeout(DefaultTimeout)) :
                          SameAnswer(o, exc', ret', log') ]_vars

\* C22's case: result() on a job made from job id 1 awaited that id, got a
\* completed payload and returned a successful Result with its counts.
C22_Witness ==
    /\ op = "result" /\ exc = "none" /\ _experiments = 0
    /\ _job_ids = <<1>> /\ Len(log) = 1 /\ log[1].job_id = 1 /\ log[1].queried
    /\ log[1].out.status = "completed"
    /\ ret.result.success /\ ret.result.results[1].success
    /\ ret.result.results[1].counts = Counts(ResA)


\* The members of qiskit.providers.JobStatus.
JobStatusMembers ==
    {"JobStatus.INITIALIZING", "JobStatus.QUEUED", "JobStatus.VALIDATING",
     "JobStatus.RUNNING", "JobStatus.CANCELLED", "JobStatus.DONE", "JobStatus.ERROR"}

\* C23: whenever status() returns, what it returns is a member of JobStatus,
\* never a raw API status text or a payload, whatever the job and whatever
\* the remote answered.
C23_StatusReturnsJobStatus ==
    (op = "status" /\ exc = "none")
    => /\ ret.status \in JobStatusMembers
       /\ ret.status = _status

\* C23's case: submit() left the raw text of the submission response in
\* _status, and the status() that followed returned a JobStatus member.
C23_Witness ==
    /\ op = "status" /\ exc = "none"
    /\ Len(log) = 1 /\ log[1].cached \in SubmitStatuses /\ log[1].queried
    /\ ret.status = "JobStatus.DONE"


\* The last operation awaited a job the remote reported as still running
\* when the wait ended.
StillRunning ==
    /\ log # <<>>
    /\ Last(log).queried /\ Last(log).out.kind = "payload"
    /\ Last(log).out.status = "running"

\* C24: when the remote job is still running at the time of the call,
\* status() returns JobStatus.RUNNING, a status that is not final.
C24_StatusReportsRunning ==
    (op = "status" /\ StillRunning)
    => (exc = "none" /\ ret.status = "JobStatus.RUNNING")


\* The place in evs of the first event FlowEv(name, pos), 0 if there is none.
PlaceOf(evs, name, pos) ==
    IF \E e \in DOMAIN evs : evs[e] = FlowEv(name, pos)
    THEN CHOOSE e \in DOMAIN evs :
            /\ evs[e] = FlowEv(name, pos)
            /\ \A e2 \in 1..(e - 1) : evs[e2] # FlowEv(name, pos)
    ELSE 0

\* C25: within one status() or result() call the job ids are awaited one
\* after another: nothing is asked or received about the job id at position
\* p + 1 before _get_status has returned for position p, nothing is asked
\* about a job id after _get_status has returned for it, and no experiment
\* result is built before _get_status has returned for every job id.
C25_AwaitsAreSequential ==
    flow.phase \notin {"-", "idle"}
    => \A e \in DOMAIN flow.events :
          LET x == flow.events[e]
          IN  /\ (x.ev \in {"await", "query", "recv"} /\ x.pos > 1)
                 => /\ PlaceOf(flow.events, "return", x.pos - 1) > 0
                    /\ PlaceOf(flow.events, "return", x.pos - 1) < e
              /\ x.ev \in {"query", "recv"}
                 => /\ PlaceOf(flow.events, "await", x.pos) \in 1..(e - 1)
                    /\ PlaceOf(flow.events, "return", x.pos) \notin 1..(e - 1)
              /\ x.ev = "build"
                 => \A pos \in DOMAIN _job_ids :
                       PlaceOf(flow.events, "return", pos) \in 1..(e - 1)

\* C25's case: a call on a job of two ids that polled twice for the first,
\* then asked about the second, and built both experiment results at the end.
C25_Witness ==
    /\ flow.phase = "returned" /\ Len(_job_ids) = 2
    /\ flow.events = <<FlowEv("await", 1), FlowEv("query", 1), FlowEv("query", 1),
                       FlowEv("return", 1),
                       FlowEv("await", 2), FlowEv("query", 2), FlowEv("return", 2),
                       FlowEv("build", 1), FlowEv("build", 2)>>


\* C26: a terminal job status is absorbing: once _status is a final
\* JobStatus, no operation on the job changes it; a job that became ERROR is
\* never afterwards stored or reported as DONE.
C26_TerminalIsAbsorbing ==
    [][ (_status \in JOB_FINAL_STATES)
        => /\ _status' = _status
           /\ (op' = "status" /\ exc' = "none") => ret'.status = _status ]_vars

\* C27: cancel() makes no remote call and leaves every field of the job as
\* it was: status, job ids, cached Result, gathered payloads, error message,
\* creation date.
C27_CancelIsNoOp ==
    [][ (op' = "cancel")
        => /\ exc' = "none"
           /\ calls' = <<>> /\ log' = <<>> /\ nOps' = nOps + 1
           /\ next_id' = next_id
           /\ _status' = _status
           /\ _job_id' = _job_id
           /\ _job_ids' = _job_ids
           /\ _result' = _result
           /\ _experiment_results' = _experiment_results
           /\ _api_error_msg' = _api_error_msg
           /\ _creation_date' = _creation_date ]_vars

\* C27's case: cancel() called on a job that has gathered a payload and
\* cached a Result.
C27_Witness ==
    /\ op = "cancel" /\ exc = "none"
    /\ _job_ids # <<>> /\ _experiment_results # <<>> /\ _result # NoResult

\* C28: after submit() the creation date is not None, and after a submit()
\* without a submission error it is the submit-date of the last response.
C28_CreationDateIsSubmitDate ==
    (op = "submit" /\ exc = "none")
    => /\ _creation_date # 0
       /\ AllOk(calls) => _creation_date = Last(calls).resp.date

\* C28's case: two experiments submitted, the creation date that of the
\* second response and not that of the first.
C28_Witness ==
    /\ op = "submit" /\ exc = "none" /\ AllOk(calls) /\ Len(calls) = 2
    /\ _creation_date = calls[2].resp.date
    /\ _creation_date # calls[1].resp.date


\* C29: for every machine-status response, Backend.status() returns a status
\* record whose pending_jobs is max(response.pending_jobs, 0) when the
\* response carries pending_jobs and 0 when it does not.
C29_PendingJobsClamped ==
    machine.phase = "done"
    => /\ machine.raised = "none"
       /\ machine.ret.pending_jobs =
             IF machine.response.has_pending_jobs
             THEN Max(machine.response.pending_jobs, 0) ELSE 0


\* text holds tok somewhere.
Contains(text, tok) == \E i \in 1..Len(text) : OccursAt(text, tok, i)

\* C30: every failed HTTP request (a network failure, or a response that is
\* not 2xx once the retries on 500/502/503/504 are used up) reaches the
\* caller as RequestsApiError, never as a response, and the error's message
\* holds no occurrence of the session's access token; a message that held
\* none, or a session without credentials, leaves the message as it was.
C30_FailureWrappedAndRedacted ==
    /\ (http.phase = "raised" /\ http.ex # "-")
       => /\ http.error.class = "RequestsApiError"
          /\ http.has_credentials => ~Contains(http.error.message, http.token)
          /\ (~http.has_credentials \/ ~Contains(http.message, http.token))
             => http.error.message = http.message
    /\ http.phase = "failing" => http.ex \in {"HTTPError", "RetryError", "ConnectionError"}
    /\ http.phase = "returned" => http.ex = "-"

\* C30's case: the retries were used up, the text of the failure held the
\* token "a" twice, and the error raised holds "..." in both places.
C30_Witness ==
    /\ http.phase = "raised" /\ http.has_credentials
    /\ http.token = <<"a">>
    /\ http.message = <<"a", "b", "a">>
    /\ http.error = RequestsApiError("RetryError",
                                     <<".", ".", ".", "b", ".", ".", ".">>)


\* C33: status() is repeatable: after status() has returned S for a job that
\* holds a job id, a second status() returns S as well, without raising and
\* without asking the remote.
C33_StatusRepeatable ==
    [][ (/\ op = "status" /\ exc = "none" /\ _job_ids # <<>>
         /\ op' = "status")
        => /\ exc' = "none"
           /\ ret'.status = ret.status
           /\ \A k \in DOMAIN log' : ~log'[k].queried ]_vars

\* C34: in every reachable state _experiment_results holds at most as many
\* entries as the job holds ids, and every entry is a status payload.
C34_EntriesArePayloadsPerId ==
    /\ Len(_experiment_results) <= Len(_job_ids)
    /\ \A i \in DOMAIN _experiment_results : _experiment_results[i].kind = "payload"

\* C35: a Result that result() returns with overall success True holds only
\* experiment results with success True.
C35_SuccessMeansAllSucceeded ==
    (op = "result" /\ exc = "none" /\ ret.result # NoResult /\ ret.result.success)
    => \A i \in DOMAIN ret.result.results : ret.result.results[i].success

\* C36: for every timeout greater than zero and whatever the remote answers,
\* one _get_status call in poll mode makes finitely many job_status queries
\* and ends: every wait but the last is at least 1 s of a budget of
\* timeout/1000 s, so the queries number at most 2 + timeout/1000, rounded
\* down.
C36_PollTerminates ==
    (wait.phase = "ended" /\ wait.timeout.num /\ wait.timeout.val > 0)
    => /\ CountEv(wait.io, "job_status") <= 2 + (wait.timeout.val \div 1000)
       /\ CountEv(wait.io, "sleep") <= 1 + (wait.timeout.val \div 1000)
       /\ (PollCase /\ wait.out.kind # "raise" /\ wait.out.status \notin PollFinal)
          => SumTo(Waits(wait.io), Len(Waits(wait.io))) = 4 * wait.timeout.val

\* C36's case: the remote answered 'running' every time; after the waits had
\* used up a budget of 30 s the call returned the last answer.
C36_Witness ==
    /\ PollCase /\ wait.timeout.val = 30000
    /\ wait.out.kind = "payload" /\ wait.out.status = "running"
    /\ \A k \in DOMAIN wait.io :
          wait.io[k].ev = "job_status" => wait.io[k].got.status = "running"
    /\ CountEv(wait.io, "job_status") >= 6

\* Some payload among the entries reports status 'canceled'.
SomeCanceled(entries) ==
    \E k \in DOMAIN entries :
        entries[k].kind = "payload" /\ StatusOf(entries[k]) = "canceled"

\* C37: no sequence of operations sets the job's status to
\* JobStatus.CANCELLED, not even awaiting a payload whose status is
\* 'canceled'; status() never returns it either.
C37_NeverCancelled ==
    /\ _status # "JobStatus.CANCELLED"
    /\ ret.status # "JobStatus.CANCELLED"

\* C37's case: a status() that awaited a canceled payload and left the job
\* DONE.
C37_Witness ==
    /\ op = "status" /\ exc = "none" /\ SomeCanceled(_experiment_results)
    /\ Last(log).out.status = "canceled"
    /\ _status = "JobStatus.DONE"


\* The digits of the version a path gives: it starts with slashes, "v" and
\* digits. <<>> when it does not start so.
GivenDigits(tail) ==
    LET slashes == Greedy(tail, 0, {"/"})
        isV     == slashes >= 1 /\ slashes < Len(tail) /\ tail[slashes + 1] = "v"
        digits  == IF isV THEN Greedy(tail, slashes + 1, Digit) ELSE 0
    IN  Slice(tail, slashes + 2, slashes + 1 + digits)

\* The URL has the form the provider accepts: https:// or no scheme, a
\* prefix, the host, and then a version /v<digits> with whatever follows
\* it, or nothing but one optional slash.
WellFormed(c) ==
    /\ c.scheme # HTTP
    /\ c.host = <<HOST>>
    /\ GivenDigits(c.tail) # <<>> \/ c.tail \in {<<>>, <<"/">>}

\* The URL names the host but is malformed: an http:// scheme, or a path
\* whose first segment does not start with "v" and a digit, be it a bad
\* version or a path without a version.
Malformed(c) ==
    /\ c.host = <<HOST>>
    /\ \/ c.scheme = HTTP
       \/ GivenDigits(c.tail) = <<>> /\ c.tail \notin {<<>>, <<"/">>}

\* C31: _canonicalize_url maps every well-formed URL (optional https://, a
\* slash-free prefix, the API host, then a version /v<digits> with an
\* optional trailing path, or no version and no path) to https:// + prefix +
\* host and the version given, slashes stripped, or the default version
\* when none is given.
C31_WellFormedUrlCanonical ==
    (canon.phase = "done" /\ WellFormed(canon))
    => /\ canon.ret.api_url = HTTPS \o canon.prefix \o <<HOST>>
       /\ canon.ret.api_version =
              IF GivenDigits(canon.tail) # <<>>
              THEN <<"v">> \o GivenDigits(canon.tail) ELSE _API_VERSION

\* C31's case: a URL without scheme, with a prefix holding the host name
\* itself, a version behind two slashes and a trailing slash.
C31_Witness ==
    /\ canon.phase = "done"
    /\ canon.scheme = <<>> /\ canon.prefix = <<HOST>> /\ canon.host = <<HOST>>
    /\ canon.tail = <<"/", "/", "v", "1">>
    /\ canon.ret = [api_url |-> HTTPS \o <<HOST, HOST>>, api_version |-> <<"v", "1">>]

C38_PriorityIsSent ==
    \A k \in DOMAIN run.requests :
        run.requests[k].priority =
            IF run.has_priority THEN run.priority ELSE DefaultPriority


\* C39: save_config with overwrite=False leaves a value already stored for
\* a key unchanged, and with overwrite=True replaces it by the current one
\* (there being one).
C39_OverwriteGuardsStoredValues ==
    qiskitrc.phase = "saved"
    => \A k \in ConfigKeys :
          qiskitrc.stored[k] # "absent"
          => qiskitrc.written[k] =
                 IF qiskitrc.overwrite /\ qiskitrc.current[k] # "None"
                 THEN qiskitrc.current[k] ELSE qiskitrc.stored[k]

====
